---- MODULE Spec2Model ----
(***************************************************************************)
(* Header store of the light node: the browser (IndexedDB) backend with    *)
(* its range table, the in-memory backend, header validation and           *)
(* verification, and the wait/notify primitive.                            *)
(***************************************************************************)
EXTENDS Integers, Sequences, FiniteSets, TLC

VARIABLES
    header_store,   \* IndexedDB "headers" object store: set of header entries (header ids)
    ranges_store,   \* IndexedDB "ranges" object store: key -> <<start, end>>
    head,           \* IndexedDbStore.head: cached head header, or NoHeader
    last,           \* the last store call: its arguments and its result
    newest,         \* the entry of "headers" with the greatest auto-incremented key
    sampling_store, \* IndexedDB "sampling" object store: height -> sampling metadata
    wpc,            \* wait_height task: position in the loop
    wheight,        \* wait_height task: the height it waits for
    wfired,         \* wait_height task: its pinned `notified()` future has been woken
    mem_headers,    \* InMemoryStore.headers: hash -> header (as a set of header ids)
    mem_height_to_hash, \* InMemoryStore.height_to_hash: set of <<height, hash>>
    mem_head_height,    \* InMemoryStore.head_height
    mem_last,       \* the last in-memory store call and its result
    mem_call,       \* an append_single_unchecked call between its checks and its locks
    mth,            \* the threads that append to and read the in-memory store
    sampling_data,  \* InMemoryStore.sampling_data: height -> sampling metadata
    lowest_unsampled_height, \* InMemoryStore.lowest_unsampled_height
    sth,            \* the threads in update_sampling_metadata: position and locals
    smp_last,       \* the last update_sampling_metadata call that reached the entry
    smp_prev,       \* the call before it
    call_args,      \* the arguments of the function, iterator or task under test
    call_ret        \* whether it has returned, its result and its position

vars == <<header_store, ranges_store, head, last, newest, sampling_store, wpc, wheight, wfired,
          mem_headers, mem_height_to_hash, mem_head_height, mem_last, mem_call, mth,
          sampling_data, lowest_unsampled_height, sth, smp_last, smp_prev,
          call_args, call_ret>>

idb_vars == <<header_store, ranges_store, head, last, newest, sampling_store>>
wait_vars == <<wpc, wheight, wfired>>
mem_vars == <<mem_headers, mem_height_to_hash, mem_head_height, mem_last, mem_call, mth>>
smp_vars == <<sampling_data, lowest_unsampled_height, sth, smp_last, smp_prev>>
call_vars == <<call_args, call_ret>>
store_vars == <<idb_vars, wait_vars, mem_vars, smp_vars>>

----------------------------------------------------------------------------
(* Bounds *)

\* heights of the headers offered to the full store specification
MaxHeight == 3
\* heights of the headers offered to the range-table specification
RangeMaxHeight == 7
\* heights of the headers offered to the wait/notify specification
WaitMaxHeight == 2
\* heights of the headers offered to the in-memory store
MemMaxHeight == 4
\* heights of the headers stored and sampled in the sampling specification
SampleMaxHeight == 3
\* the highest height of a header in the runs of SpecMerge
MergeMaxHeight == 1
\* the highest height of a header passed to verify
VerifyMaxHeight == 3
\* the highest height and the longest tail passed to verify_adjacent_range
AdjacentMaxHeight == 4
AdjacentMaxLen == 2
\* the highest height of a header passed to validate
ValidateMaxHeight == 2
\* the highest stored height and the largest limit passed to calculate_range_to_fetch
FetchMaxHeight == 6
FetchMaxLimit == 4
\* the highest height of a header in a database that is opened again
OpenMaxHeight == 3
\* the highest height of a header appended to the in-memory store next to it
OpenMemMaxHeight == 1
\* the highest height of a header passed to the append methods
AppendMaxHeight == 2
\* the highest height of a header stored next to inserts at height 0
ZeroMaxHeight == 3
\* the highest height of a header stored before get_range is called
GetRangeMaxHeight == 3

\* the highest height of a header passed to the verifying append methods
VerifiedMaxHeight == 2

\* the longest batch passed to validate_headers
YieldMaxLen == 5

\* the highest height of a header appended by the concurrent appenders, and the
\* number of shards of a map
MtMaxHeight == 2
\* the highest height the appenders race for under fair scheduling
MtFairMaxHeight == 1
MemShards == 2

\* the highest height of a range set that is iterated, and the largest limit passed
\* to next_batch
IterMaxHeight == 5
IterMaxLimit == 3
\* the calls made on one iterator: two more than the heights it can hold
IterMaxCalls == IterMaxHeight + 2

----------------------------------------------------------------------------
(* Extended headers *)

VERIFY_CLOCK_DRIFT == 10

\* time of the genesis block minus one; block h of a generated chain has time TimeBase + h
TimeBase == 10

\* the hash of the single validator set the generator uses
VSetHash == 7

\* hash of the (empty) data square of every generated block
DahHash == 9

DefaultHash == 0

\* commit.block_id.hash of the generated header of `height` on chain variant v
GenHash(height, v) == 10 * height + v

\* generate_genesis / generate_next: the header at `height` of the main chain (v = 0)
\* or the `next_of` sibling of the main chain's header at height - 1 (v = 1)
GenHeader(height, v) ==
    [ height |-> height,
      chain_id |-> 1,
      time |-> TimeBase + height,
      last_header_hash |-> IF height = 1 THEN DefaultHash ELSE GenHash(height - 1, 0),
      validators_hash |-> VSetHash,
      next_validators_hash |-> VSetHash,
      vset_hash |-> VSetHash,
      data_hash |-> DahHash,
      dah_hash |-> DahHash,
      commit_height |-> height,
      hash |-> GenHash(height, v),
      header_hash |-> GenHash(height, v),
      signers |-> VSetHash ]

\* a header whose data hash does not match its DAH: validate() rejects it
BadHeader(height) ==
    [ GenHeader(height, 2) EXCEPT !.data_hash = DahHash + 1 ]

\* the genesis header with header.height overwritten (store.rs test_overwrite_hash):
\* same commit hash as the genesis header, at another height
DupHeader(height) ==
    [ GenHeader(1, 0) EXCEPT !.height = height, !.header_hash = GenHash(height, 3) ]

\* a validate that does not compare the commit's height with the header's
ValidateNoCommitHeight(h) ==
    /\ h.height >= 1
    /\ h.vset_hash = h.validators_hash
    /\ h.dah_hash = h.data_hash
    /\ h.hash = h.header_hash
    /\ h.signers = h.vset_hash

\* ExtendedHeader::validate
Validate(h) ==
    /\ h.height >= 1
    /\ h.vset_hash = h.validators_hash
    /\ h.dah_hash = h.data_hash
    /\ h.commit_height = h.height
    /\ h.hash = h.header_hash
    /\ h.signers = h.vset_hash

\* a verify that accepts a header whose time is exactly now + VERIFY_CLOCK_DRIFT
VerifyNonStrict(trusted, untrusted, now) ==
    /\ untrusted.height > trusted.height
    /\ untrusted.chain_id = trusted.chain_id
    /\ untrusted.time > trusted.time
    /\ untrusted.time <= now + VERIFY_CLOCK_DRIFT
    /\ IF trusted.height + 1 = untrusted.height
       THEN /\ untrusted.validators_hash = trusted.next_validators_hash
            /\ untrusted.last_header_hash = trusted.hash
       ELSE untrusted.signers = trusted.vset_hash

\* ExtendedHeader::verify, with the clock reading `now`
Verify(trusted, untrusted, now) ==
    /\ untrusted.height > trusted.height
    /\ untrusted.chain_id = trusted.chain_id
    /\ untrusted.time > trusted.time
    /\ untrusted.time < now + VERIFY_CLOCK_DRIFT
    /\ IF trusted.height + 1 = untrusted.height
       THEN /\ untrusted.validators_hash = trusted.next_validators_hash
            /\ untrusted.last_header_hash = trusted.hash
       ELSE untrusted.signers = trusted.vset_hash

\* a range verification that verifies each header against its predecessor and does
\* not compare the heights
RECURSIVE VerifyEachAgainstPrevious(_, _, _)
VerifyEachAgainstPrevious(trusted, tail, now) ==
    IF tail = <<>> THEN TRUE
    ELSE /\ Verify(trusted, tail[1], now)
         /\ VerifyEachAgainstPrevious(tail[1], Tail(tail), now)

\* ExtendedHeader::verify_adjacent_range: every header of `tail` is one height above
\* its predecessor (the first above `trusted`) and verifies against it
RECURSIVE verify_adjacent_range(_, _, _)
verify_adjacent_range(trusted, tail, now) ==
    IF tail = <<>> THEN TRUE
    ELSE /\ tail[1].height = trusted.height + 1
         /\ Verify(trusted, tail[1], now)
         /\ verify_adjacent_range(tail[1], Tail(tail), now)

\* A header is held in the state by its id <<height, variant>>: variant 0 is the main
\* chain, 1 the sibling generated by next_of, 2 the header that fails validate(),
\* 3 the genesis header relabelled to another height.
TopHeight ==
    LET m(a, b) == IF a >= b THEN a ELSE b
    IN m(m(m(MaxHeight, RangeMaxHeight), m(WaitMaxHeight, MemMaxHeight)), SampleMaxHeight)

\* the genesis header relabelled to height 0
ZeroHeader == <<0, 3>>

HeaderIds == ((1..TopHeight) \X (0..3)) \cup {ZeroHeader}

HeaderOf ==
    [ id \in HeaderIds |->
        IF id[2] = 2 THEN BadHeader(id[1])
        ELSE IF id[2] = 3 THEN DupHeader(id[1])
        ELSE GenHeader(id[1], id[2]) ]

\* Option::None of a header
NoHeader == <<0, 0>>

HeightOf(id) == HeaderOf[id].height
HashOf(id) == HeaderOf[id].hash

----------------------------------------------------------------------------
(* Results of store calls *)

Res(kind, a, b) == [kind |-> kind, a |-> a, b |-> b]
Ok == Res("Ok", 0, 0)
IsOk(r) == r.kind = "Ok"
NotFound == Res("NotFound", 0, 0)

----------------------------------------------------------------------------
(* Header ranges *)

Min2(a, b) == IF a <= b THEN a ELSE b
Max2(a, b) == IF a >= b THEN a ELSE b

\* RangeInclusive::is_empty
RangeIsEmpty(r) == r[1] > r[2]

\* HeaderRanges::contains
RangesContain(ranges, height) ==
    \E i \in 1..Len(ranges) : ranges[i][1] <= height /\ height <= ranges[i][2]

\* Option::None of a range and of a range index
NoRange == <<>>
NoIndex == 0 - 1

\* intersection of two inclusive ranges, or NoRange
ranges_intersection(x, y) ==
    IF Max2(x[1], y[1]) <= Min2(x[2], y[2])
    THEN <<Max2(x[1], y[1]), Min2(x[2], y[2])>>
    ELSE NoRange

\* the union of two adjacent ranges, or NoRange when they do not touch
try_consolidate_ranges(x, y) ==
    IF x[2] + 1 = y[1] THEN <<x[1], y[2]>>
    ELSE IF y[2] + 1 = x[1] THEN <<y[1], x[2]>>
    ELSE NoRange

RangeScanResult(index, range, to_remove) ==
    [ok |-> TRUE, range_index |-> index, range |-> range, range_to_remove |-> to_remove]
RangeScanError(res) == [ok |-> FALSE, err |-> res]

\* a range check that places every range that overlaps no stored range after the
\* last one
CheckRangeInsertUnplaced(ranges, r) ==
    IF \E i \in 1..Len(ranges) : ranges_intersection(ranges[i], r) # NoRange
    THEN RangeScanError(Res("HeaderRangeOverlap", r[1], r[2]))
    ELSE RangeScanResult(Len(ranges), r, NoIndex)

\* HeaderRanges::check_range_insert; indices are positions in `ranges`, from 0
check_range_insert(ranges, r) ==
    IF RangeIsEmpty(r) \/ r[1] = 0 THEN RangeScanError(Res("InvalidInsertion", r[1], r[2]))
    ELSE IF Len(ranges) = 0 THEN RangeScanResult(0, r, NoIndex)
    ELSE IF r[1] > ranges[Len(ranges)][2] + 1 THEN RangeScanResult(Len(ranges), r, NoIndex)
    ELSE
      LET hits == { i \in 1..Len(ranges) :
                      \/ ranges_intersection(ranges[i], r) # NoRange
                      \/ try_consolidate_ranges(ranges[i], r) # NoRange }
      IN IF hits = {}
         THEN RangeScanError(Res("InsertPlacementDisallowed", r[1], r[2]))
         ELSE
           LET i == CHOOSE j \in hits : \A k \in hits : j <= k
               x == ranges_intersection(ranges[i], r)
           IN IF x # NoRange THEN RangeScanError(Res("HeaderRangeOverlap", x[1], x[2]))
              ELSE
                LET found == try_consolidate_ranges(ranges[i], r)
                IN IF i + 1 > Len(ranges) THEN RangeScanResult(i - 1, found, NoIndex)
                   ELSE
                     LET y == ranges_intersection(ranges[i + 1], r)
                         both == try_consolidate_ranges(ranges[i + 1], found)
                     IN IF y # NoRange
                        THEN RangeScanError(Res("HeaderRangeOverlap", y[1], y[2]))
                        ELSE IF both # NoRange THEN RangeScanResult(i - 1, both, i)
                        ELSE RangeScanResult(i - 1, found, NoIndex)

\* verify_range_contiguous: the first pair of consecutive headers that is not
\* height, height + 1
verify_range_contiguous(headers) ==
    LET gaps == { i \in 1..(Len(headers) - 1) :
                    HeightOf(headers[i + 1]) # HeightOf(headers[i]) + 1 }
    IN IF gaps = {} THEN Ok
       ELSE LET i == CHOOSE j \in gaps : \A k \in gaps : j <= k
            IN Res("InsertRangeWithGap", HeightOf(headers[i]), HeightOf(headers[i + 1]))

----------------------------------------------------------------------------
(* IndexedDbStore *)

RECURSIVE KeysInOrder(_)
KeysInOrder(keys) ==
    IF keys = {} THEN <<>>
    ELSE LET k == CHOOSE x \in keys : \A y \in keys : x <= y
         IN <<k>> \o KeysInOrder(keys \ {k})

\* IndexedDbStore::get_stored_header_ranges: the values of the ranges table in
\* key order (Direction::Next), keys dropped
get_stored_header_ranges(rs) ==
    LET ks == KeysInOrder(DOMAIN rs) IN [i \in 1..Len(ks) |-> rs[ks[i]]]

\* IndexedDbStore::contains_height
contains_height(rs, height) == RangesContain(get_stored_header_ranges(rs), height)

\* get_by_height over the height index of the headers table; NoHeader is NotFound
get_by_height(hs, height) ==
    IF \E e \in hs : HeightOf(e) = height
    THEN CHOOSE e \in hs : HeightOf(e) = height
    ELSE NoHeader

\* IndexedDbStore::get_by_hash over the hash index of the headers table
get_by_hash(hs, hash) ==
    IF \E e \in hs : HashOf(e) = hash
    THEN CHOOSE e \in hs : HashOf(e) = hash
    ELSE NoHeader

\* IndexedDbStore::contains_hash
contains_hash(hs, hash) == \E e \in hs : HashOf(e) = hash

\* IndexedDbStore::get_head; NoHeader is NotFound
get_head(hd) == hd

\* IndexedDbStore::get_head_height
get_head_height(hd) == IF hd = NoHeader THEN NotFound ELSE Res("Ok", HeightOf(hd), 0)

\* the writes of try_insert_to_range: delete the removed key, put the resulting range
\* under range_index; prev_exists / next_exists tell whether the new range grew
ApplyRangeScan(rs, new_range, scan) ==
    IF ~scan.ok THEN scan
    ELSE
      LET kept == IF scan.range_to_remove = NoIndex THEN DOMAIN rs
                  ELSE DOMAIN rs \ {scan.range_to_remove}
          keys == kept \cup {scan.range_index}
      IN [ ok |-> TRUE,
           ranges |-> [k \in keys |-> IF k = scan.range_index THEN scan.range ELSE rs[k]],
           prev_exists |-> new_range[1] # scan.range[1],
           next_exists |-> new_range[2] # scan.range[2] ]

\* try_insert_to_range: the ranges table after the reservation, and whether the
\* new range was merged with a range before and after it
try_insert_to_range(rs, new_range) ==
    ApplyRangeScan(rs, new_range,
                   check_range_insert(get_stored_header_ranges(rs), new_range))

\* validate_headers
validate_headers(headers) ==
    LET bad == { i \in 1..Len(headers) : ~Validate(HeaderOf[headers[i]]) }
    IN IF bad = {} THEN Ok
       ELSE LET i == CHOOSE j \in bad : \A k \in bad : j <= k
            IN Res("ValidationError", HeightOf(headers[i]), 0)

\* verify_against_neighbours
verify_against_neighbours(hs, lowest, highest, prev_exists, next_exists, now) ==
    LET prev == get_by_height(hs, HeightOf(lowest) - 1)
        next == get_by_height(hs, HeightOf(highest) + 1)
    IN IF prev_exists /\ prev = NoHeader THEN Res("StoredDataError", 0, 0)
       ELSE IF prev_exists /\ ~Verify(HeaderOf[prev], HeaderOf[lowest], now)
            THEN Res("VerificationError", HeightOf(lowest), 0)
       ELSE IF next_exists /\ next = NoHeader THEN Res("StoredDataError", 0, 0)
       ELSE IF next_exists /\ ~Verify(HeaderOf[highest], HeaderOf[next], now)
            THEN Res("VerificationError", HeightOf(highest), 0)
       ELSE Ok

\* the loop of IndexedDbStore::insert that adds the headers one by one inside the
\* transaction: the headers table after it, or the first error
RECURSIVE AddHeaders(_, _, _)
AddHeaders(hs, headers, i) ==
    IF i > Len(headers) THEN [res |-> Ok, headers |-> hs]
    ELSE IF contains_hash(hs, HashOf(headers[i]))
         THEN [res |-> Res("HashExists", HashOf(headers[i]), 0), headers |-> hs]
    ELSE IF \E e \in hs : HeightOf(e) = HeightOf(headers[i])
         THEN [res |-> Res("FatalDatabaseError", HeightOf(headers[i]), 0), headers |-> hs]
    ELSE AddHeaders(hs \cup {headers[i]}, headers, i + 1)

\* the checks of IndexedDbStore::insert that follow the range reservation
InsertChecks(hs, headers, verify_neighbours, reserved, now) ==
    IF verify_neighbours
    THEN LET v == validate_headers(headers)
         IN IF ~IsOk(v) THEN v
            ELSE verify_against_neighbours(hs, headers[1], headers[Len(headers)],
                                           reserved.prev_exists, reserved.next_exists, now)
    ELSE verify_range_contiguous(headers)

\* the cached head after the head update of IndexedDbStore::insert
UpdatedHead(hd, tail) ==
    IF HeightOf(tail) > (IF hd = NoHeader THEN 0 ELSE HeightOf(hd)) THEN tail ELSE hd

\* the result of a call that leaves the store as it was
Unchanged(hs, rs, hd, res) ==
    [res |-> res, header_store |-> hs, ranges_store |-> rs, head |-> hd, notified |-> FALSE]

\* the result of a call that returns an error inside the transaction.  insert
\* returns with `?` and drops the transaction: it calls neither abort nor commit.
\* IndexedDB discards the writes of a transaction that is aborted and commits a
\* transaction whose requests have all completed, so the writes made so far are
\* either discarded or kept (tx_commits).
Dropped(hs, rs, hd, res, written_hs, written_rs, tx_commits) ==
    IF tx_commits
    THEN [res |-> res, header_store |-> written_hs, ranges_store |-> written_rs,
          head |-> hd, notified |-> FALSE]
    ELSE Unchanged(hs, rs, hd, res)

\* IndexedDbStore::insert from the loop that adds the headers on: the head update,
\* the commit and the notification.  A request that fails aborts the transaction,
\* and so does a commit that fails.
InsertPersist(hs, rs, hd, headers, reserved, added, tx_commits) ==
    IF added.res.kind = "HashExists"
    THEN Dropped(hs, rs, hd, added.res, added.headers, reserved.ranges, tx_commits)
    ELSE IF ~IsOk(added.res) THEN Unchanged(hs, rs, hd, added.res)
    ELSE IF ~tx_commits
         THEN [ res |-> Res("FatalDatabaseError", 0, 0),
                header_store |-> hs, ranges_store |-> rs,
                head |-> UpdatedHead(hd, headers[Len(headers)]),
                notified |-> FALSE ]
    ELSE [ res |-> Ok,
           header_store |-> added.headers,
           ranges_store |-> reserved.ranges,
           head |-> UpdatedHead(hd, headers[Len(headers)]),
           notified |-> TRUE ]

\* IndexedDbStore::insert after the checks that follow the range reservation
InsertChecked(hs, rs, hd, headers, reserved, checked, tx_commits) ==
    IF ~IsOk(checked) THEN Dropped(hs, rs, hd, checked, hs, reserved.ranges, tx_commits)
    ELSE InsertPersist(hs, rs, hd, headers, reserved, AddHeaders(hs, headers, 1), tx_commits)

\* IndexedDbStore::insert after the range reservation
InsertReserved(hs, rs, hd, headers, verify_neighbours, now, tx_commits, reserved) ==
    IF ~reserved.ok THEN Unchanged(hs, rs, hd, reserved.err)
    ELSE InsertChecked(hs, rs, hd, headers, reserved,
                       InsertChecks(hs, headers, verify_neighbours, reserved, now),
                       tx_commits)

\* IndexedDbStore::insert as one transaction: the result, the tables and the cached
\* head after it, and whether the waiters were notified
InsertOutcome(hs, rs, hd, headers, verify_neighbours, now, tx_commits) ==
    IF Len(headers) = 0 THEN Unchanged(hs, rs, hd, Ok)
    ELSE InsertReserved(hs, rs, hd, headers, verify_neighbours, now, tx_commits,
                        try_insert_to_range(rs, <<HeightOf(headers[1]),
                                                  HeightOf(headers[Len(headers)])>>))

\* a notifier that wakes only a future that has already been polled
NotifyPolledOnly(pc, fired, notified) ==
    IF notified /\ pc = "await" THEN TRUE ELSE fired

\* tokio Notify::notify_waiters: wakes the `notified()` future the waiting task
\* holds, from the creation of the future on, polled or not
NotifyWaiters(pc, fired, notified) ==
    IF notified /\ pc \in {"check", "checked", "await"} THEN TRUE ELSE fired

\* the entry with the greatest key after the writes of an insert: header_store.add
\* draws the keys from the auto-increment generator of the table, so it is the entry
\* added last, and the entry that had it before when no entry was added
NewestEntry(prev, hs, written_hs, headers) ==
    LET added == { i \in 1..Len(headers) : headers[i] \in written_hs \ hs }
    IN IF added = {} THEN prev
       ELSE headers[CHOOSE i \in added : \A j \in added : j <= i]

\* Store::insert(headers, verify_neighbours) on the IndexedDB backend
Insert(headers, verify_neighbours, now, tx_commits) ==
    \E out \in {InsertOutcome(header_store, ranges_store, head, headers,
                             verify_neighbours, now, tx_commits)} :
       /\ header_store' = out.header_store
       /\ ranges_store' = out.ranges_store
       /\ head' = out.head
       /\ newest' = NewestEntry(newest, header_store, out.header_store, headers)
       /\ sampling_store' = sampling_store
       /\ last' = [ op |-> "insert", headers |-> headers, verify |-> verify_neighbours,
                    now |-> now, res |-> out.res, notified |-> out.notified ]
       /\ wfired' = NotifyWaiters(wpc, wfired, out.notified)
       /\ UNCHANGED <<wpc, wheight>>
       /\ UNCHANGED mem_vars
       /\ UNCHANGED smp_vars
       /\ UNCHANGED call_vars

\* get_head_from_database: the first entry of the headers table read from the greatest
\* key downwards (Direction::Prev, limit 1); NoHeader is NotFound
get_head_from_database(nw) == nw

\* IndexedDbStore::new with an empty ranges table left empty
UnmigratedRanges(rs, db_head) == rs

\* the ranges table after IndexedDbStore::new: a database with a head and no range
\* gets the range 1..=head.height under key 0
MigratedRanges(rs, db_head) ==
    IF db_head # NoHeader /\ Len(get_stored_header_ranges(rs)) = 0
    THEN 0 :> <<1, HeightOf(db_head)>>
    ELSE rs

\* the store has not been opened since the database was written by version 1
Closed == [ op |-> "closed", headers |-> <<>>, verify |-> FALSE, now |-> 0, res |-> Ok,
            notified |-> FALSE ]

\* IndexedDbStore::new on the database of the given name: the schema upgrade creates
\* the tables that are missing, the cached head is read from the headers table, and
\* a database without ranges is given its first range.  Dropping the store before
\* leaves the tables as they are.
Open ==
    \E db_head \in {get_head_from_database(newest)} :
       /\ head' = db_head
       /\ ranges_store' = MigratedRanges(ranges_store, db_head)
       /\ last' = [ op |-> "new", headers |-> <<>>, verify |-> FALSE, now |-> 0,
                    res |-> Ok, notified |-> FALSE ]
       /\ UNCHANGED <<header_store, newest, sampling_store>>
       /\ UNCHANGED wait_vars
       /\ UNCHANGED mem_vars
       /\ UNCHANGED smp_vars
       /\ UNCHANGED call_vars

\* a sampling entry of the IndexedDB store
IdbMetadata(status, cids) == [status |-> status, cids |-> cids]

\* the cids of an entry followed by the new ones that it does not hold yet
RECURSIVE IdbPushMissing(_, _)
IdbPushMissing(stored, cids) ==
    IF Len(cids) = 0 THEN stored
    ELSE IdbPushMissing(IF \E i \in 1..Len(stored) : stored[i] = cids[1]
                        THEN stored ELSE Append(stored, cids[1]),
                        Tail(cids))

\* IndexedDbStore::update_sampling_metadata: the sampling table after the call, or
\* NotFound for a height outside the stored ranges
IdbUpdateSamplingMetadata(height, status, cids) ==
    /\ last.op # "closed"
    /\ IF ~contains_height(ranges_store, height)
       THEN /\ last' = [ op |-> "update_sampling_metadata", headers |-> <<>>,
                         verify |-> FALSE, now |-> height, res |-> NotFound,
                         notified |-> FALSE ]
            /\ UNCHANGED sampling_store
       ELSE /\ last' = [ op |-> "update_sampling_metadata", headers |-> <<>>,
                         verify |-> FALSE, now |-> height, res |-> Ok,
                         notified |-> FALSE ]
            /\ sampling_store' =
                 IF height \notin DOMAIN sampling_store
                 THEN (height :> IdbMetadata(status, cids)) @@ sampling_store
                 ELSE [sampling_store EXCEPT ![height] =
                          IdbMetadata(status, IdbPushMissing(@.cids, cids))]
    /\ UNCHANGED <<header_store, ranges_store, head, newest>>
    /\ UNCHANGED wait_vars
    /\ UNCHANGED mem_vars
    /\ UNCHANGED smp_vars
    /\ UNCHANGED call_vars

\* IndexedDbStore::get_sampling_metadata: NotFound outside the stored ranges, None
\* for a height without an entry, else the entry
idb_get_sampling_metadata(rs, ss, height) ==
    IF ~contains_height(rs, height) THEN [kind |-> "NotFound", some |-> FALSE]
    ELSE IF height \notin DOMAIN ss THEN [kind |-> "Ok", some |-> FALSE]
    ELSE [kind |-> "Ok", some |-> TRUE, entry |-> ss[height]]

\* Store::insert_single: insert of the one-header batch
insert_single(hs, rs, hd, header, verify_neighbours, now, tx_commits) ==
    InsertOutcome(hs, rs, hd, <<header>>, verify_neighbours, now, tx_commits)

\* Store::append_single_unchecked, the default method of the trait
append_single_unchecked(hs, rs, hd, header, now, tx_commits) ==
    insert_single(hs, rs, hd, header, FALSE, now, tx_commits)

\* Store::append_single
append_single(hs, rs, hd, header, now, tx_commits) ==
    insert_single(hs, rs, hd, header, TRUE, now, tx_commits)

\* Store::append_unchecked
append_unchecked(hs, rs, hd, headers, now, tx_commits) ==
    InsertOutcome(hs, rs, hd, headers, FALSE, now, tx_commits)

\* Store::append
append(hs, rs, hd, headers, now, tx_commits) ==
    InsertOutcome(hs, rs, hd, headers, TRUE, now, tx_commits)

\* the append methods and whether they verify
AppendMethods == {"append_single_unchecked", "append_single", "append_unchecked", "append"}
AppendVerifies(op) == op \in {"append_single", "append"}

\* a call of one of the append methods on the IndexedDB store, which does not
\* override them; the single-header methods take a header, passed as a batch of one
AppendMethod(op, headers, now, tx_commits) ==
    /\ op \in {"append_single_unchecked", "append_single"} => Len(headers) = 1
    /\ \E out \in { CASE op = "append_single_unchecked" ->
                           append_single_unchecked(header_store, ranges_store, head,
                                                   headers[1], now, tx_commits)
                      [] op = "append_single" ->
                           append_single(header_store, ranges_store, head,
                                         headers[1], now, tx_commits)
                      [] op = "append_unchecked" ->
                           append_unchecked(header_store, ranges_store, head,
                                            headers, now, tx_commits)
                      [] op = "append" ->
                           append(header_store, ranges_store, head,
                                  headers, now, tx_commits) } :
          /\ header_store' = out.header_store
          /\ ranges_store' = out.ranges_store
          /\ head' = out.head
          /\ newest' = NewestEntry(newest, header_store, out.header_store, headers)
          /\ sampling_store' = sampling_store
          /\ last' = [ op |-> op, headers |-> headers, verify |-> AppendVerifies(op),
                       now |-> now, res |-> out.res, notified |-> out.notified ]
          /\ wfired' = NotifyWaiters(wpc, wfired, out.notified)
    /\ UNCHANGED <<wpc, wheight>>
    /\ UNCHANGED mem_vars
    /\ UNCHANGED smp_vars
    /\ UNCHANGED call_vars

----------------------------------------------------------------------------
(* IndexedDbStore::wait_height *)

\* `let mut notifier = pin!(self.header_added_notifier.notified())`: the future is
\* created before the first check
WaitCall(height) ==
    /\ wpc \in {"idle", "done"}
    /\ wpc' = "check"
    /\ wheight' = height
    /\ wfired' = FALSE
    /\ UNCHANGED idb_vars
    /\ UNCHANGED mem_vars
    /\ UNCHANGED smp_vars
    /\ UNCHANGED call_vars

\* a check that also returns when the task has been woken, whatever is stored
WaitCheckWoken ==
    /\ wpc = "check"
    /\ wpc' = IF contains_height(ranges_store, wheight) \/ wfired THEN "done" ELSE "checked"
    /\ UNCHANGED <<wheight, wfired>>
    /\ UNCHANGED idb_vars
    /\ UNCHANGED mem_vars
    /\ UNCHANGED smp_vars
    /\ UNCHANGED call_vars

\* `if self.contains_height(height).await { return Ok(()) }`: the read of the
\* ranges table; the task goes on once the read has completed
WaitCheck ==
    /\ wpc = "check"
    /\ wpc' = IF contains_height(ranges_store, wheight) THEN "done" ELSE "checked"
    /\ UNCHANGED <<wheight, wfired>>
    /\ UNCHANGED idb_vars
    /\ UNCHANGED mem_vars
    /\ UNCHANGED smp_vars
    /\ UNCHANGED call_vars

\* `notifier.as_mut().await`: the task polls the future and suspends
WaitSuspend ==
    /\ wpc = "checked"
    /\ wpc' = "await"
    /\ UNCHANGED <<wheight, wfired>>
    /\ UNCHANGED idb_vars
    /\ UNCHANGED mem_vars
    /\ UNCHANGED smp_vars
    /\ UNCHANGED call_vars

\* the await completes once the future has been woken
WaitWake ==
    /\ wpc = "await"
    /\ wfired
    /\ wpc' = "rearm"
    /\ UNCHANGED <<wheight, wfired>>
    /\ UNCHANGED idb_vars
    /\ UNCHANGED mem_vars
    /\ UNCHANGED smp_vars
    /\ UNCHANGED call_vars

\* `notifier.set(self.header_added_notifier.notified())`
WaitRearm ==
    /\ wpc = "rearm"
    /\ wpc' = "check"
    /\ wfired' = FALSE
    /\ UNCHANGED wheight
    /\ UNCHANGED idb_vars
    /\ UNCHANGED mem_vars
    /\ UNCHANGED smp_vars
    /\ UNCHANGED call_vars

----------------------------------------------------------------------------
(* IndexedDbStore::wait_new_head *)

\* the state of a wait_new_head task that has not returned, and of one that returned
\* new_head
NewHeadPending == [done |-> FALSE, ok |-> FALSE, new_head |-> 0]
NewHeadReturned(new_head) == [done |-> TRUE, ok |-> TRUE, new_head |-> new_head]

\* `self.get_head_height().unwrap_or(0)`
HeadHeightOrZero(hd) == IF hd = NoHeader THEN 0 ELSE HeightOf(hd)

\* the first poll of wait_new_head: the head height is read, the notifier is created,
\* the first comparison of the loop reads the same head, and the task suspends on
\* the notifier; nothing between these awaits
WaitNewHeadCall ==
    /\ call_args.fn = "wait_new_head"
    /\ wpc \in {"idle", "done"}
    /\ wpc' = "await"
    /\ wheight' = HeadHeightOrZero(head)
    /\ wfired' = FALSE
    /\ call_ret' = NewHeadPending
    /\ UNCHANGED call_args
    /\ UNCHANGED idb_vars
    /\ UNCHANGED mem_vars
    /\ UNCHANGED smp_vars

\* the task is polled after its notifier fired: the notifier is reset, the head
\* height is read again and returned if it differs from the first, else the task
\* suspends on the new notifier
WaitNewHeadResume ==
    /\ call_args.fn = "wait_new_head"
    /\ wpc = "await"
    /\ wfired
    /\ wfired' = FALSE
    /\ \E new_head \in {HeadHeightOrZero(head)} :
          IF wheight # new_head
          THEN wpc' = "done" /\ call_ret' = NewHeadReturned(new_head)
          ELSE wpc' = "await" /\ call_ret' = call_ret
    /\ UNCHANGED wheight
    /\ UNCHANGED call_args
    /\ UNCHANGED idb_vars
    /\ UNCHANGED mem_vars
    /\ UNCHANGED smp_vars

----------------------------------------------------------------------------
(* InMemoryStore *)

\* InMemoryStore::get_head_height without the test for a store that has no head
MemHeadHeightOfEmpty(hh) == Res("Ok", hh, 0)

\* InMemoryStore::get_head_height
mem_get_head_height(hh) == IF hh = 0 THEN NotFound ELSE Res("Ok", hh, 0)

\* InMemoryStore::contains_height
mem_contains_height(hh, height) ==
    IsOk(mem_get_head_height(hh)) /\ height # 0 /\ height <= hh

\* InMemoryStore::get_by_height: the header, or the error
mem_get_by_height(hs, h2h, hh, height) ==
    IF ~mem_contains_height(hh, height) THEN NotFound
    ELSE IF ~\E e \in h2h : e[1] = height THEN Res("LostHeight", height, 0)
    ELSE LET hash == (CHOOSE e \in h2h : e[1] = height)[2]
         IN IF \E x \in hs : HashOf(x) = hash
            THEN Res("Ok", CHOOSE x \in hs : HashOf(x) = hash, 0)
            ELSE Res("LostHash", hash, 0)

\* InMemoryStore::get_head
mem_get_head(hs, h2h, hh) ==
    IF ~IsOk(mem_get_head_height(hh)) THEN NotFound
    ELSE mem_get_by_height(hs, h2h, hh, hh)

\* InMemoryStore::contains_hash
mem_contains_hash(hs, hash) == \E x \in hs : HashOf(x) = hash

\* InMemoryStore::get_by_hash
mem_get_by_hash(hs, hash) ==
    IF \E x \in hs : HashOf(x) = hash
    THEN Res("Ok", CHOOSE x \in hs : HashOf(x) = hash, 0)
    ELSE NotFound

\* append_single_unchecked up to the entry locks: the checks against head_height
MemLightChecks(hh, header) ==
    IF hh > 0 /\ HeightOf(header) <= hh THEN Res("HeightExists", HeightOf(header), 0)
    ELSE IF hh + 1 # HeightOf(header) THEN Res("NonContinuousAppend", hh, HeightOf(header))
    ELSE Ok

\* append_single_unchecked from the entry locks on
MemLocked(hs, h2h, hh, header) ==
    IF \E x \in hs : HashOf(x) = HashOf(header)
    THEN [res |-> Res("HashExists", HashOf(header), 0),
          headers |-> hs, height_to_hash |-> h2h, head_height |-> hh]
    ELSE IF \E e \in h2h : e[1] = HeightOf(header)
    THEN [res |-> Res("HeightExists", HeightOf(header), 0),
          headers |-> hs, height_to_hash |-> h2h, head_height |-> hh]
    ELSE [res |-> Ok,
          headers |-> hs \cup {header},
          height_to_hash |-> h2h \cup {<<HeightOf(header), HashOf(header)>>},
          head_height |-> HeightOf(header)]

\* the first part of a call of InMemoryStore::append_single_unchecked: it reads
\* head_height and returns an error, or goes on to take the entry locks
MemAppendBegin(header) ==
    /\ mem_call = NoHeader
    /\ \E checked \in {MemLightChecks(mem_head_height, header)} :
          IF IsOk(checked)
          THEN /\ mem_call' = header
               /\ UNCHANGED mem_last
          ELSE /\ mem_last' = [op |-> "append", header |-> header, res |-> checked]
               /\ UNCHANGED mem_call
    /\ UNCHANGED <<mem_headers, mem_height_to_hash, mem_head_height, mth>>
    /\ UNCHANGED idb_vars
    /\ UNCHANGED wait_vars
    /\ UNCHANGED smp_vars
    /\ UNCHANGED call_vars

\* the second part of that call: under the entry locks
MemAppendLocked ==
    /\ mem_call # NoHeader
    /\ \E out \in {MemLocked(mem_headers, mem_height_to_hash, mem_head_height, mem_call)} :
          /\ mem_headers' = out.headers
          /\ mem_height_to_hash' = out.height_to_hash
          /\ mem_head_height' = out.head_height
          /\ mem_last' = [op |-> "append", header |-> mem_call, res |-> out.res]
    /\ mem_call' = NoHeader
    /\ UNCHANGED mth
    /\ UNCHANGED idb_vars
    /\ UNCHANGED wait_vars
    /\ UNCHANGED smp_vars
    /\ UNCHANGED call_vars

\* a whole call of append_single_unchecked by another thread
MemAppend(header) ==
    /\ \E checked \in {MemLightChecks(mem_head_height, header)} :
         \E out \in {MemLocked(mem_headers, mem_height_to_hash, mem_head_height, header)} :
          IF IsOk(checked)
          THEN /\ mem_headers' = out.headers
               /\ mem_height_to_hash' = out.height_to_hash
               /\ mem_head_height' = out.head_height
               /\ mem_last' = [op |-> "append", header |-> header, res |-> out.res]
          ELSE /\ mem_last' = [op |-> "append", header |-> header, res |-> checked]
               /\ UNCHANGED <<mem_headers, mem_height_to_hash, mem_head_height>>
    /\ UNCHANGED <<mem_call, mth>>
    /\ UNCHANGED idb_vars
    /\ UNCHANGED wait_vars
    /\ UNCHANGED smp_vars
    /\ UNCHANGED call_vars

----------------------------------------------------------------------------
(* InMemoryStore: concurrent appends and reads *)

\* two threads in append_single_unchecked and one in get_by_height
Appenders == {1, 2}
Readers == {3}
MemThreads == Appenders \cup Readers

\* a thread outside a call, with the result of its last call
MtThread(pc, op, header, height, hash, occupied, res) ==
    [ pc |-> pc, op |-> op, header |-> header, height |-> height, hash |-> hash,
      occupied |-> occupied, res |-> res ]
MtIdle == MtThread("idle", "none", NoHeader, 0, 0, FALSE, Ok)
MtReturned(th, res) == MtThread("idle", th.op, th.header, th.height, th.hash, FALSE, res)

\* DashMap locks the shard of a key: an Entry holds the write lock of the shard
\* until it is inserted into or dropped
Shard(key) == key % MemShards

\* the thread holds the entry of its hash in `headers`: from self.headers.entry(hash)
\* to hash_entry.insert(header)
HoldsHashEntry(th) == th.pc \in {"lock_height", "insert_hash"}

\* the thread holds the entry of its height in `height_to_hash`: from
\* self.height_to_hash.entry(height) to height_entry.insert(hash)
HoldsHeightEntry(th) == th.pc \in {"insert_hash", "insert_height"}

\* a height_to_hash map whose entries lock nothing
HeightShardUnlocked(threads, t, height) == FALSE

\* another thread holds the shard of the key
HashShardLocked(threads, t, hash) ==
    \E u \in Appenders \ {t} :
        HoldsHashEntry(threads[u]) /\ Shard(threads[u].hash) = Shard(hash)
HeightShardLocked(threads, t, height) ==
    \E u \in Appenders \ {t} :
        HoldsHeightEntry(threads[u]) /\ Shard(threads[u].height) = Shard(height)

\* a head height stored one above the height of the appended header
PublishedAboveHeader(header) == HeightOf(header) + 1

\* self.head_height.store(height, Ordering::Release)
PublishedHeadHeight(header) == HeightOf(header)

MtUnchangedOthers ==
    /\ UNCHANGED <<mem_last, mem_call>>
    /\ UNCHANGED idb_vars
    /\ UNCHANGED wait_vars
    /\ UNCHANGED smp_vars
    /\ UNCHANGED call_vars

\* append_single_unchecked, the checks against head_height: an error, or on to the
\* entries
MtAppendCall(t, header) ==
    /\ mth[t].pc = "idle"
    /\ \E checked \in {MemLightChecks(mem_head_height, header)} :
          mth' = [mth EXCEPT ![t] =
                    IF IsOk(checked)
                    THEN MtThread("lock_hash", "append", header, HeightOf(header),
                                  HashOf(header), FALSE, Ok)
                    ELSE MtThread("idle", "append", header, HeightOf(header),
                                  HashOf(header), FALSE, checked)]
    /\ UNCHANGED <<mem_headers, mem_height_to_hash, mem_head_height>>
    /\ MtUnchangedOthers

\* let hash_entry = self.headers.entry(hash): waits for the shard
MtLockHash(t) ==
    /\ mth[t].pc = "lock_hash"
    /\ ~HashShardLocked(mth, t, mth[t].hash)
    /\ mth' = [mth EXCEPT ![t].pc = "lock_height",
                          ![t].occupied = mem_contains_hash(mem_headers, mth[t].hash)]
    /\ UNCHANGED <<mem_headers, mem_height_to_hash, mem_head_height>>
    /\ MtUnchangedOthers

\* let height_entry = self.height_to_hash.entry(height), and the two tests of the
\* entries: an occupied entry returns the error and drops both entries
MtLockHeight(t) ==
    /\ mth[t].pc = "lock_height"
    /\ ~HeightShardLocked(mth, t, mth[t].height)
    /\ mth' = [mth EXCEPT ![t] =
                 IF mth[t].occupied
                 THEN MtReturned(mth[t], Res("HashExists", mth[t].hash, 0))
                 ELSE IF \E e \in mem_height_to_hash : e[1] = mth[t].height
                 THEN MtReturned(mth[t], Res("HeightExists", mth[t].height, 0))
                 ELSE [mth[t] EXCEPT !.pc = "insert_hash"]]
    /\ UNCHANGED <<mem_headers, mem_height_to_hash, mem_head_height>>
    /\ MtUnchangedOthers

\* hash_entry.insert(header)
MtInsertHash(t) ==
    /\ mth[t].pc = "insert_hash"
    /\ mem_headers' = mem_headers \cup {mth[t].header}
    /\ mth' = [mth EXCEPT ![t].pc = "insert_height"]
    /\ UNCHANGED <<mem_height_to_hash, mem_head_height>>
    /\ MtUnchangedOthers

\* height_entry.insert(hash)
MtInsertHeight(t) ==
    /\ mth[t].pc = "insert_height"
    /\ mem_height_to_hash' = mem_height_to_hash \cup {<<mth[t].height, mth[t].hash>>}
    /\ mth' = [mth EXCEPT ![t].pc = "store_head"]
    /\ UNCHANGED <<mem_headers, mem_head_height>>
    /\ MtUnchangedOthers

\* self.head_height.store(height, Ordering::Release), and Ok(())
MtStoreHead(t) ==
    /\ mth[t].pc = "store_head"
    /\ mem_head_height' = PublishedHeadHeight(mth[t].header)
    /\ mth' = [mth EXCEPT ![t] = MtReturned(mth[t], Ok)]
    /\ UNCHANGED <<mem_headers, mem_height_to_hash>>
    /\ MtUnchangedOthers

\* get_by_height(height): contains_height reads head_height
MtReadCall(t, height) ==
    /\ mth[t].pc = "idle"
    /\ mth' = [mth EXCEPT ![t] =
                 IF mem_contains_height(mem_head_height, height)
                 THEN MtThread("get_hash", "get_by_height", NoHeader, height, 0, FALSE, Ok)
                 ELSE MtThread("idle", "get_by_height", NoHeader, height, 0, FALSE,
                               NotFound)]
    /\ UNCHANGED <<mem_headers, mem_height_to_hash, mem_head_height>>
    /\ MtUnchangedOthers

\* self.height_to_hash.get(&height): waits for the shard; LostHeight without entry
MtReadHash(t) ==
    /\ mth[t].pc = "get_hash"
    /\ ~HeightShardLocked(mth, t, mth[t].height)
    /\ mth' = [mth EXCEPT ![t] =
                 IF \E e \in mem_height_to_hash : e[1] = mth[t].height
                 THEN [mth[t] EXCEPT !.pc = "get_header",
                          !.hash = (CHOOSE e \in mem_height_to_hash :
                                       e[1] = mth[t].height)[2]]
                 ELSE MtReturned(mth[t], Res("LostHeight", mth[t].height, 0))]
    /\ UNCHANGED <<mem_headers, mem_height_to_hash, mem_head_height>>
    /\ MtUnchangedOthers

\* self.headers.get(&hash): waits for the shard; LostHash without entry
MtReadHeader(t) ==
    /\ mth[t].pc = "get_header"
    /\ ~HashShardLocked(mth, t, mth[t].hash)
    /\ mth' = [mth EXCEPT ![t] =
                 IF mem_contains_hash(mem_headers, mth[t].hash)
                 THEN MtReturned([mth[t] EXCEPT !.header =
                                     CHOOSE x \in mem_headers : HashOf(x) = mth[t].hash],
                                 Ok)
                 ELSE MtReturned(mth[t], Res("LostHash", mth[t].hash, 0))]
    /\ UNCHANGED <<mem_headers, mem_height_to_hash, mem_head_height>>
    /\ MtUnchangedOthers

----------------------------------------------------------------------------
(* InMemoryStore: sampling metadata *)

\* the threads that call update_sampling_metadata, and a thread outside the call
Threads == {1, 2}
IdleThread == [ pc |-> "idle", previous_height |-> 0, current_height |-> 0 ]
NoUpdate == [ op |-> "none", height |-> 0, accepted |-> FALSE, cids |-> <<>>,
              res |-> Ok, new_inserted |-> FALSE ]

\* InMemoryStore::get_next_unsampled_height
get_next_unsampled_height(cursor) == cursor

\* `for cid in &cids { if !contains(cid) { push(cid) } }`
RECURSIVE PushMissing(_, _, _)
PushMissing(cids_sampled, cids, i) ==
    IF i > Len(cids) THEN cids_sampled
    ELSE IF \E j \in 1..Len(cids_sampled) : cids_sampled[j] = cids[i]
         THEN PushMissing(cids_sampled, cids, i + 1)
    ELSE PushMissing(Append(cids_sampled, cids[i]), cids, i + 1)

\* the `match self.sampling_data.entry(height)` of update_sampling_metadata: a
\* vacant entry takes the flag and the list as given, an occupied entry takes the
\* flag and the CIDs it does not hold yet
UpdateEntry(sd, height, accepted, cids) ==
    IF height \notin DOMAIN sd
    THEN [ sampling_data |->
             [h \in DOMAIN sd \cup {height} |->
                IF h = height THEN [accepted |-> accepted, cids_sampled |-> cids]
                ELSE sd[h]],
           new_inserted |-> TRUE ]
    ELSE [ sampling_data |->
             [sd EXCEPT ![height] =
                [accepted |-> accepted,
                 cids_sampled |-> PushMissing(sd[height].cids_sampled, cids, 1)]],
           new_inserted |-> FALSE ]

\* a lookup that reports a stored header without an entry as NotFound
GetSamplingEntryOnly(sd, hh, height) ==
    IF height \notin DOMAIN sd THEN NotFound ELSE Res("Ok", TRUE, sd[height])

\* InMemoryStore::get_sampling_metadata: NotFound, or Ok with the entry (a = TRUE,
\* b = the entry) or with None (a = FALSE)
mem_get_sampling_metadata(sd, hh, height) ==
    IF ~mem_contains_height(hh, height) THEN NotFound
    ELSE IF height \notin DOMAIN sd THEN Res("Ok", FALSE, <<>>)
    ELSE Res("Ok", TRUE, sd[height])

\* an update that does not test contains_height
UpdateSamplingUnguarded(t, height, accepted, cids, keep_prev) ==
    /\ sth[t].pc = "idle"
    /\ \E out \in {UpdateEntry(sampling_data, height, accepted, cids)} :
            /\ sampling_data' = out.sampling_data
            /\ smp_last' = [ op |-> "update", height |-> height, accepted |-> accepted,
                             cids |-> cids, res |-> Ok,
                             new_inserted |-> out.new_inserted ]
            /\ sth' = IF out.new_inserted
                      THEN [sth EXCEPT ![t].pc = "load"]
                      ELSE sth
    /\ smp_prev' = IF keep_prev THEN smp_last ELSE smp_prev
    /\ UNCHANGED lowest_unsampled_height
    /\ UNCHANGED idb_vars
    /\ UNCHANGED wait_vars
    /\ UNCHANGED mem_vars
    /\ UNCHANGED call_vars

\* InMemoryStore::update_sampling_metadata by thread t, up to the release of the
\* entry: a call for a height that is not stored returns NotFound, a call that
\* finds an entry returns, a call that created the entry goes on to
\* update_lowest_unsampled_height
UpdateSamplingMetadata(t, height, accepted, cids, keep_prev) ==
    /\ sth[t].pc = "idle"
    /\ IF ~mem_contains_height(mem_head_height, height)
       THEN /\ smp_last' = [ op |-> "update", height |-> height, accepted |-> accepted,
                             cids |-> cids, res |-> NotFound, new_inserted |-> FALSE ]
            /\ UNCHANGED <<sampling_data, sth>>
       ELSE \E out \in {UpdateEntry(sampling_data, height, accepted, cids)} :
            /\ sampling_data' = out.sampling_data
            /\ smp_last' = [ op |-> "update", height |-> height, accepted |-> accepted,
                             cids |-> cids, res |-> Ok,
                             new_inserted |-> out.new_inserted ]
            /\ sth' = IF out.new_inserted
                      THEN [sth EXCEPT ![t].pc = "load"]
                      ELSE sth
    /\ smp_prev' = IF keep_prev THEN smp_last ELSE smp_prev
    /\ UNCHANGED lowest_unsampled_height
    /\ UNCHANGED idb_vars
    /\ UNCHANGED wait_vars
    /\ UNCHANGED mem_vars
    /\ UNCHANGED call_vars

\* update_lowest_unsampled_height: `previous_height = load(); current_height = previous_height`
UpdateLoad(t) ==
    /\ sth[t].pc = "load"
    /\ sth' = [sth EXCEPT ![t] = [ pc |-> "scan",
                                   previous_height |-> lowest_unsampled_height,
                                   current_height |-> lowest_unsampled_height ]]
    /\ UNCHANGED <<sampling_data, lowest_unsampled_height, smp_last, smp_prev>>
    /\ UNCHANGED idb_vars
    /\ UNCHANGED wait_vars
    /\ UNCHANGED mem_vars
    /\ UNCHANGED call_vars

\* a scan that tests a single height instead of looping
UpdateScanOnce(t) ==
    /\ sth[t].pc = "scan"
    /\ sth' = IF sth[t].current_height \in DOMAIN sampling_data
              THEN [sth EXCEPT ![t].current_height = @ + 1, ![t].pc = "cas"]
              ELSE [sth EXCEPT ![t].pc = "cas"]
    /\ UNCHANGED <<sampling_data, lowest_unsampled_height, smp_last, smp_prev>>
    /\ UNCHANGED idb_vars
    /\ UNCHANGED wait_vars
    /\ UNCHANGED mem_vars
    /\ UNCHANGED call_vars

\* one test of `while self.sampling_data.contains_key(&current_height)`
UpdateScan(t) ==
    /\ sth[t].pc = "scan"
    /\ sth' = IF sth[t].current_height \in DOMAIN sampling_data
              THEN [sth EXCEPT ![t].current_height = @ + 1]
              ELSE [sth EXCEPT ![t].pc = "cas"]
    /\ UNCHANGED <<sampling_data, lowest_unsampled_height, smp_last, smp_prev>>
    /\ UNCHANGED idb_vars
    /\ UNCHANGED wait_vars
    /\ UNCHANGED mem_vars
    /\ UNCHANGED call_vars

\* a store of current_height that does not compare
UpdateStoreBlind(t) ==
    /\ sth[t].pc = "cas"
    /\ lowest_unsampled_height' = sth[t].current_height
    /\ sth' = [sth EXCEPT ![t] = IdleThread]
    /\ UNCHANGED <<sampling_data, smp_last, smp_prev>>
    /\ UNCHANGED idb_vars
    /\ UNCHANGED wait_vars
    /\ UNCHANGED mem_vars
    /\ UNCHANGED call_vars

\* `compare_exchange(previous_height, current_height)`: on success the call returns,
\* on failure the loop starts again
UpdateCas(t) ==
    /\ sth[t].pc = "cas"
    /\ IF lowest_unsampled_height = sth[t].previous_height
       THEN /\ lowest_unsampled_height' = sth[t].current_height
            /\ sth' = [sth EXCEPT ![t] = IdleThread]
       ELSE /\ sth' = [sth EXCEPT ![t].pc = "load"]
            /\ UNCHANGED lowest_unsampled_height
    /\ UNCHANGED <<sampling_data, smp_last, smp_prev>>
    /\ UNCHANGED idb_vars
    /\ UNCHANGED wait_vars
    /\ UNCHANGED mem_vars
    /\ UNCHANGED call_vars

----------------------------------------------------------------------------
(* NamespacedDataId and its CID *)

\* sizes in bytes of a namespace and of a hash
NS_SIZE == 29
HASH_SIZE == 32

\* NamespacedDataId::size
NAMESPACED_DATA_ID_SIZE == NS_SIZE + 42

NAMESPACED_DATA_ID_MULTIHASH_CODE == 30753
NAMESPACED_DATA_ID_CODEC == 30752

\* put_u16_le / put_u64_le: the n low bytes of x, lowest first
RECURSIVE LeBytes(_, _)
LeBytes(x, n) == IF n = 0 THEN <<>> ELSE <<x % 256>> \o LeBytes(x \div 256, n - 1)

\* get_u16_le / get_u64_le
RECURSIVE FromLeBytes(_)
FromLeBytes(bytes) ==
    IF bytes = <<>> THEN 0 ELSE bytes[1] + 256 * FromLeBytes(Tail(bytes))

\* an encoding that writes only the low byte of the row index
EncodeLowRowByte(id) ==
    <<id.row_index % 256, 0>> \o id.hash \o LeBytes(id.block_height, 8) \o id.namespace

\* NamespacedDataId::encode
encode(id) ==
    LeBytes(id.row_index, 2) \o id.hash \o LeBytes(id.block_height, 8) \o id.namespace

\* NamespacedDataId::decode
decode(buffer) ==
    IF Len(buffer) # NAMESPACED_DATA_ID_SIZE
    THEN Res("InvalidMultihashLength", Len(buffer), 0)
    ELSE \* the cursor reads the row index, the hash, the height and the namespace
         LET row_index == FromLeBytes(SubSeq(buffer, 1, 2))
             hash == SubSeq(buffer, 3, 2 + HASH_SIZE)
             block_height == FromLeBytes(SubSeq(buffer, 3 + HASH_SIZE, 10 + HASH_SIZE))
             namespace == SubSeq(buffer, 11 + HASH_SIZE, 10 + HASH_SIZE + NS_SIZE)
         IN IF block_height = 0 THEN Res("InvalidCid", 0, 0)
            ELSE Res("Ok", [ namespace |-> namespace, row_index |-> row_index,
                             hash |-> hash, block_height |-> block_height ], 0)

\* TryFrom<NamespacedDataId> for CidGeneric: the multihash wraps the encoded bytes
CidFromId(id) ==
    [ version |-> 1,
      codec |-> NAMESPACED_DATA_ID_CODEC,
      hash |-> [ code |-> NAMESPACED_DATA_ID_MULTIHASH_CODE,
                 size |-> Len(encode(id)),
                 digest |-> encode(id) ] ]

\* a conversion that tests the multihash code before the size
IdFromCidCodeFirst(cid) ==
    IF cid.codec # NAMESPACED_DATA_ID_CODEC THEN Res("InvalidCidCodec", cid.codec, 0)
    ELSE IF cid.hash.code # NAMESPACED_DATA_ID_MULTIHASH_CODE
    THEN Res("InvalidMultihashCode", cid.hash.code, NAMESPACED_DATA_ID_MULTIHASH_CODE)
    ELSE IF cid.hash.size # NAMESPACED_DATA_ID_SIZE
    THEN Res("InvalidMultihashLength", cid.hash.size, 0)
    ELSE decode(cid.hash.digest)

\* TryFrom<CidGeneric> for NamespacedDataId
IdFromCid(cid) ==
    IF cid.codec # NAMESPACED_DATA_ID_CODEC THEN Res("InvalidCidCodec", cid.codec, 0)
    ELSE IF cid.hash.size # NAMESPACED_DATA_ID_SIZE
    THEN Res("InvalidMultihashLength", cid.hash.size, 0)
    ELSE IF cid.hash.code # NAMESPACED_DATA_ID_MULTIHASH_CODE
    THEN Res("InvalidMultihashCode", cid.hash.code, NAMESPACED_DATA_ID_MULTIHASH_CODE)
    ELSE decode(cid.hash.digest)

----------------------------------------------------------------------------
(* Syncing window: store/utils.rs *)

\* the empty range `1..=0`
EmptyRange == <<1, 0>>

\* BlockRangeExt::truncate_right: at most `limit` heights, counted from the start
truncate_right(range, limit) ==
    IF RangeIsEmpty(range) THEN EmptyRange
    ELSE <<range[1], Min2(range[2], range[1] + limit - 1)>>

\* BlockRangeExt::truncate_left: at most `limit` heights, counted from the end
truncate_left(range, limit) ==
    IF RangeIsEmpty(range) THEN EmptyRange
    ELSE <<Max2(range[1], range[2] - limit + 1), range[2]>>

\* u64::saturating_sub
saturating_sub(a, b) == IF a >= b THEN a - b ELSE 0

\* get_most_recent_missing_range: Either::Right of the stored ranges (syncing
\* forward) or Either::Left of the topmost range (syncing backwards)
get_most_recent_missing_range(head_height, store_headers) ==
    IF Len(store_headers) = 0
    THEN [side |-> "Right", range |-> <<1, head_height>>]
    ELSE LET store_head_range == store_headers[Len(store_headers)]
             penultimate_range_end ==
                 IF Len(store_headers) >= 2
                 THEN store_headers[Len(store_headers) - 1][2]
                 ELSE 0
         IN IF store_head_range[2] < head_height
            THEN [side |-> "Right", range |-> <<store_head_range[2] + 1, head_height>>]
            ELSE [side |-> "Left",
                  range |-> <<penultimate_range_end + 1,
                              saturating_sub(store_head_range[1], 1)>>]

\* a calculation that trims every missing range from the right
CalculateRangeFromTheLeft(subjective_head_height, store_headers, limit) ==
    truncate_right(get_most_recent_missing_range(subjective_head_height,
                                                 store_headers).range, limit)

\* calculate_range_to_fetch
calculate_range_to_fetch(subjective_head_height, store_headers, limit) ==
    LET missing == get_most_recent_missing_range(subjective_head_height, store_headers)
    IN IF missing.side = "Left"
       THEN truncate_left(missing.range, limit)
       ELSE truncate_right(missing.range, limit)

----------------------------------------------------------------------------
(* Store::get_range *)

\* the bounds of a RangeBounds<u64>
Unbounded == [kind |-> "Unbounded", x |-> 0]
Included(x) == [kind |-> "Included", x |-> x]
Excluded(x) == [kind |-> "Excluded", x |-> x]

\* the error of a conversion or of a read that finds nothing
RangeNotFound == [ok |-> FALSE, kind |-> "NotFound", start |-> 0, end |-> 0]

\* the start of to_headers_range: 1 when unbounded; an included 0 or a start above
\* last_index is NotFound
RangeStart(bound, last_index) ==
    CASE bound.kind = "Unbounded" -> [ok |-> TRUE, v |-> 1]
      [] bound.kind = "Included" ->
            IF bound.x > last_index \/ bound.x = 0
            THEN [ok |-> FALSE, v |-> 0]
            ELSE [ok |-> TRUE, v |-> bound.x]
      [] bound.kind = "Excluded" ->
            IF bound.x >= last_index
            THEN [ok |-> FALSE, v |-> 0]
            ELSE [ok |-> TRUE, v |-> bound.x + 1]

\* the end excluded at x with the excluded end taken as the last height (not x - 1)
RangeEndKeepExcluded(bound, last_index) ==
    CASE bound.kind = "Unbounded" -> [ok |-> TRUE, v |-> last_index]
      [] bound.kind = "Included" ->
            IF bound.x > last_index
            THEN [ok |-> FALSE, v |-> 0]
            ELSE [ok |-> TRUE, v |-> bound.x]
      [] bound.kind = "Excluded" ->
            IF bound.x > last_index + 1
            THEN [ok |-> FALSE, v |-> 0]
            ELSE [ok |-> TRUE, v |-> bound.x]

\* the end of to_headers_range: last_index when unbounded; an end above last_index
\* is NotFound; an excluded 0 stays 0
RangeEnd(bound, last_index) ==
    CASE bound.kind = "Unbounded" -> [ok |-> TRUE, v |-> last_index]
      [] bound.kind = "Included" ->
            IF bound.x > last_index
            THEN [ok |-> FALSE, v |-> 0]
            ELSE [ok |-> TRUE, v |-> bound.x]
      [] bound.kind = "Excluded" ->
            IF bound.x > last_index + 1
            THEN [ok |-> FALSE, v |-> 0]
            ELSE IF bound.x = 0
                 THEN [ok |-> TRUE, v |-> 0]
                 ELSE [ok |-> TRUE, v |-> bound.x - 1]

\* to_headers_range: the inclusive interval start..=end of the bounds, the start
\* being converted (and refused) before the end
to_headers_range(start_bound, end_bound, last_index) ==
    \* start
    LET start == RangeStart(start_bound, last_index)
        end == RangeEnd(end_bound, last_index)
    IN IF ~start.ok THEN RangeNotFound
       ELSE IF ~end.ok THEN RangeNotFound
       ELSE [ok |-> TRUE, kind |-> "Ok", start |-> start.v, end |-> end.v]

\* a failed get_range: an error and no vector
GetRangeNotFound == [ok |-> FALSE, kind |-> "NotFound", headers |-> <<>>]

\* the loop of get_range with every height read, a missing one skipped
RECURSIVE GetRangeSkipMissing(_, _, _, _)
GetRangeSkipMissing(hs, height, end, headers) ==
    IF height > end
    THEN [ok |-> TRUE, kind |-> "Ok", headers |-> headers]
    ELSE LET header == get_by_height(hs, height)
         IN GetRangeSkipMissing(hs, height + 1, end,
                                IF header = NoHeader THEN headers
                                ELSE Append(headers, header))

\* the loop of get_range: get_by_height for each height of the interval in ascending
\* order, the first height that is not found ending the call with its error
RECURSIVE GetRangeLoop(_, _, _, _)
GetRangeLoop(hs, height, end, headers) ==
    IF height > end
    THEN [ok |-> TRUE, kind |-> "Ok", headers |-> headers]
    ELSE LET header == get_by_height(hs, height)
         IN IF header = NoHeader
            THEN GetRangeNotFound
            ELSE GetRangeLoop(hs, height + 1, end, Append(headers, header))

\* Store::get_range over the headers table hs and the cached head hd
get_range(hs, hd, start_bound, end_bound) ==
    LET head_height == get_head_height(hd)
    IN IF ~IsOk(head_height) THEN GetRangeNotFound
       ELSE LET range == to_headers_range(start_bound, end_bound, head_height.a)
            IN IF ~range.ok THEN GetRangeNotFound
               ELSE GetRangeLoop(hs, range.start, range.end, <<>>)

----------------------------------------------------------------------------
(* validate_headers as a task: store/utils.rs *)

VALIDATIONS_PER_YIELD == 4

\* a chunk that ends only with the batch
ChunkEndsWithBatch(validated, next, len) == next > len

\* headers.chunks(VALIDATIONS_PER_YIELD): the chunk ends after its
\* VALIDATIONS_PER_YIELD-th header and with the last header of the batch
ChunkEnds(validated, next, len) == validated = VALIDATIONS_PER_YIELD \/ next > len

\* the task that runs validate_headers: the next header to validate, the headers
\* validated since the task was last suspended, whether it is suspended in
\* yield_now, and whether another task has been polled since it was suspended
ValidateTask(done, res, next, validated, yielded, polled) ==
    [ done |-> done, ok |-> IsOk(res), res |-> res, next |-> next,
      validated |-> validated, yielded |-> yielded, polled |-> polled ]

\* validate_headers called on an empty batch: no chunk, no yield
VhReturnEmpty ==
    /\ call_args.fn = "validate_headers"
    /\ ~call_ret.done /\ ~call_ret.yielded
    /\ Len(call_args.headers) = 0
    /\ call_ret' = ValidateTask(TRUE, Ok, 1, 0, FALSE, FALSE)
    /\ UNCHANGED call_args
    /\ UNCHANGED store_vars

\* header.validate()? on the next header of the chunk; after the last header of the
\* chunk the task reaches yield_now().await and is suspended
VhValidateHeader ==
    /\ call_args.fn = "validate_headers"
    /\ ~call_ret.done /\ ~call_ret.yielded
    /\ call_ret.next <= Len(call_args.headers)
    /\ \E header \in {call_args.headers[call_ret.next]} :
          call_ret' =
            IF ~Validate(HeaderOf[header])
            THEN ValidateTask(TRUE, Res("ValidationError", HeightOf(header), 0),
                              call_ret.next, call_ret.validated, FALSE, FALSE)
            ELSE ValidateTask(FALSE, Ok, call_ret.next + 1, call_ret.validated + 1,
                              ChunkEnds(call_ret.validated + 1, call_ret.next + 1,
                                        Len(call_args.headers)),
                              FALSE)
    /\ UNCHANGED call_args
    /\ UNCHANGED store_vars

\* the executor polls another task that is ready: it can do so only while the
\* validating task is suspended
OtherTaskPoll ==
    /\ call_args.fn = "validate_headers"
    /\ call_ret.yielded /\ ~call_ret.polled
    /\ call_ret' = [call_ret EXCEPT !.polled = TRUE]
    /\ UNCHANGED call_args
    /\ UNCHANGED store_vars

\* the executor polls the validating task again: it goes on with the next chunk, or
\* returns Ok(()) after the last one
VhResume ==
    /\ call_args.fn = "validate_headers"
    /\ call_ret.yielded
    /\ call_ret' = ValidateTask(call_ret.next > Len(call_args.headers), Ok,
                                call_ret.next, 0, FALSE, FALSE)
    /\ UNCHANGED call_args
    /\ UNCHANGED store_vars

----------------------------------------------------------------------------
(* HeaderRangesIterator: store.rs *)

\* RangeLengthExt::len of a range that is not empty
RangeLen(r) == r[2] - r[1] + 1

\* HeaderRanges::into_iter: the first range and the ranges after it
HeaderRangesIterator(inner, outer) == [inner |-> inner, outer |-> outer]
into_iter(ranges) ==
    IF Len(ranges) = 0 THEN HeaderRangesIterator(NoRange, <<>>)
    ELSE HeaderRangesIterator(ranges[1], Tail(ranges))

\* outer_iter.next() assigned to inner_iter
AdvanceOuter(it) ==
    IF Len(it.outer) = 0 THEN HeaderRangesIterator(NoRange, <<>>)
    ELSE HeaderRangesIterator(it.outer[1], Tail(it.outer))

\* a rest of the current range that starts at the last height of the returned batch
RestFromLastReturned(r, limit) == <<r[1] + limit - 1, r[2]>>

\* the rest of the current range after a batch of `limit` heights
RestOfRange(r, limit) == <<r[1] + limit, r[2]>>

\* HeaderRangesIterator::next_batch: the iterator after the call and the returned
\* range, NoRange for None
next_batch(it, limit) ==
    IF it.inner = NoRange THEN [it |-> it, ret |-> NoRange]
    ELSE IF RangeLen(it.inner) <= limit
         THEN [it |-> AdvanceOuter(it), ret |-> it.inner]
    ELSE [it |-> HeaderRangesIterator(RestOfRange(it.inner, limit), it.outer),
          ret |-> <<it.inner[1], it.inner[1] + limit - 1>>]

\* Iterator::next of HeaderRangesIterator: the iterator after the call and the
\* returned height, 0 for None.  A RangeInclusive that has yielded its last height
\* is exhausted; it is held as the empty range above its end.
RECURSIVE iter_next(_)
iter_next(it) ==
    IF it.inner = NoRange THEN [it |-> it, ret |-> 0]
    ELSE IF ~RangeIsEmpty(it.inner)
         THEN [it |-> HeaderRangesIterator(<<it.inner[1] + 1, it.inner[2]>>, it.outer),
               ret |-> it.inner[1]]
    ELSE iter_next(AdvanceOuter(it))

\* the iterator under test with the last returned value, the heights returned so
\* far, whether the last call returned None, and the number of calls made
IterState(it, ret, returned, done, calls) ==
    [ done |-> done, ok |-> TRUE, it |-> it, ret |-> ret, returned |-> returned,
      calls |-> calls ]

\* a call of next_batch(limit)
IterNextBatch(limit) ==
    /\ call_args.fn = "next_batch"
    /\ call_ret.calls < IterMaxCalls
    /\ \E out \in {next_batch(call_ret.it, limit)} :
          call_ret' = IterState(out.it, out.ret,
                                IF out.ret = NoRange THEN call_ret.returned
                                ELSE call_ret.returned \cup (out.ret[1]..out.ret[2]),
                                out.ret = NoRange, call_ret.calls + 1)
    /\ call_args' = [call_args EXCEPT !.limit = limit]
    /\ UNCHANGED store_vars

\* a call of next()
IterNext ==
    /\ call_args.fn = "next"
    /\ call_ret.calls < IterMaxCalls
    /\ \E out \in {iter_next(call_ret.it)} :
          call_ret' = IterState(out.it, IF out.ret = 0 THEN NoRange
                                         ELSE <<out.ret, out.ret>>,
                                IF out.ret = 0 THEN call_ret.returned
                                ELSE call_ret.returned \cup {out.ret},
                                out.ret = 0, call_ret.calls + 1)
    /\ UNCHANGED call_args
    /\ UNCHANGED store_vars

----------------------------------------------------------------------------
(* Inputs *)

\* clock readings: one at which only the genesis block is not from the future, and
\* one after every generated block
Nows == {TimeBase - VERIFY_CLOCK_DRIFT + 2, TimeBase + 100}

\* an insert reads the clock only when it verifies against the neighbours
ClockReadings(verify_neighbours) == IF verify_neighbours THEN Nows ELSE {0}

\* the main chain's headers lo..hi
RECURSIVE MainRun(_, _)
MainRun(lo, hi) == IF lo > hi THEN <<>> ELSE << <<lo, 0>> >> \o MainRun(lo + 1, hi)

\* the batches offered to the full store: the empty batch; single headers of the main
\* chain and of its siblings, one invalid header and one relabelled genesis header;
\* contiguous pairs of main-chain and sibling headers; a main-chain pair that skips a
\* height, one that descends, and a pair of two headers of one height
Batches(maxh) ==
    {<<>>}
      \cup { << <<h, v>> >> : h \in 1..maxh, v \in {0, 1} }
      \cup { << <<2, 2>> >>, << <<maxh, 3>> >> }
      \cup { << <<h, v[1]>>, <<h + 1, v[2]>> >> :
                h \in 1..(maxh - 1), v \in {<<0, 0>>, <<0, 1>>, <<1, 0>>} }
      \cup { << <<h, 0>>, <<h + 2, 0>> >> : h \in 1..(maxh - 2) }
      \cup { << <<2, 0>>, <<1, 0>> >>, << <<maxh, 0>>, <<maxh, 1>> >> }

\* the batches offered to the range-table specification: runs of the main chain
RangeBatches(maxh) ==
    { MainRun(r[1], r[2]) : r \in { x \in (1..maxh) \X (1..maxh) : x[1] <= x[2] /\ x[2] <= x[1] + 1 } }

\* the input sets of the specifications
StoreBatches == Batches(MaxHeight)
RangeStoreBatches == RangeBatches(RangeMaxHeight)
WaitStoreBatches == RangeBatches(WaitMaxHeight)

NoCall == [ op |-> "none", headers |-> <<>>, verify |-> FALSE, now |-> 0, res |-> Ok,
            notified |-> FALSE ]
MemNoCall == [ op |-> "none", header |-> NoHeader, res |-> Ok ]

\* the headers offered to the in-memory store: main chain, siblings and the
\* relabelled genesis header
MemHeaders == (1..MemMaxHeight) \X {0, 1, 3}

----------------------------------------------------------------------------
(* Specifications *)

\* the stores after construction
\* no waiting task, a new in-memory store, no sampling call in progress
InitTasks ==
    /\ wpc = "idle"
    /\ wheight = 0
    /\ wfired = FALSE
    /\ mem_headers = {}
    /\ mem_height_to_hash = {}
    /\ mem_head_height = 0
    /\ mem_last = MemNoCall
    /\ mem_call = NoHeader
    /\ mth = [t \in MemThreads |-> MtIdle]
    /\ sampling_data = <<>>
    /\ lowest_unsampled_height = 1
    /\ sth = [t \in Threads |-> IdleThread]
    /\ smp_last = NoUpdate
    /\ smp_prev = NoUpdate

\* a new IndexedDB store next to it
InitStore ==
    /\ header_store = {}
    /\ ranges_store = <<>>
    /\ head = NoHeader
    /\ last = NoCall
    /\ newest = NoHeader
    /\ sampling_store = <<>>
    /\ InitTasks

\* no call of a function of the types crate
NoArgs == [fn |-> "none"]
NotReturned == [done |-> FALSE, ok |-> FALSE]

Init ==
    /\ InitStore
    /\ call_args = NoArgs
    /\ call_ret = NotReturned

\* the IndexedDB store under every offered batch, both values of verify_neighbours,
\* both clock readings and a transaction whose writes are committed or discarded
StoreInsert ==
    \E headers \in StoreBatches, verify_neighbours \in BOOLEAN, tx_commits \in BOOLEAN :
        \E now \in ClockReadings(verify_neighbours) :
            Insert(headers, verify_neighbours, now, tx_commits)

Next == StoreInsert

Spec == Init /\ [][Next]_vars

\* the IndexedDB store under runs of the main chain over a longer chain, inserted
\* without neighbour verification and committed
RangeInsert ==
    \E headers \in RangeStoreBatches : Insert(headers, FALSE, 0, TRUE)

NextRanges == RangeInsert

SpecRanges == Init /\ [][NextRanges]_vars

\* a task in wait_height next to inserts of runs of the main chain, committed or not
WaitInsert ==
    \E headers \in WaitStoreBatches, tx_commits \in BOOLEAN :
        Insert(headers, FALSE, 0, tx_commits)

WaitHeightCall == \E height \in 1..WaitMaxHeight : WaitCall(height)

NextWait ==
    \/ WaitInsert
    \/ WaitHeightCall
    \/ WaitCheck
    \/ WaitSuspend
    \/ WaitWake
    \/ WaitRearm

\* the waiting task is scheduled whenever it can run
SpecWait ==
    /\ Init
    /\ [][NextWait]_vars
    /\ WF_vars(WaitCheck)
    /\ WF_vars(WaitSuspend)
    /\ WF_vars(WaitWake)
    /\ WF_vars(WaitRearm)

\* the in-memory store under two threads that append single headers
MemBegin == \E header \in MemHeaders : MemAppendBegin(header)
MemOther == \E header \in MemHeaders : MemAppend(header)

NextMem ==
    \/ MemBegin
    \/ MemAppendLocked
    \/ MemOther

SpecMem == Init /\ [][NextMem]_vars

\* the in-memory store with the headers of the main chain appended in order and
\* two threads that update the sampling metadata
SampleAppend ==
    \E height \in {mem_head_height + 1} \cap (1..SampleMaxHeight) : MemAppend(<<height, 0>>)

\* the flag and CID list of a sampling update
SampleInputs == {<<TRUE, <<1>>>>, <<FALSE, <<1, 2>>>>}

SampleUpdate ==
    \E t \in Threads, height \in 0..(SampleMaxHeight + 1), input \in SampleInputs :
        UpdateSamplingMetadata(t, height, input[1], input[2], FALSE)

SampleLoad == \E t \in Threads : UpdateLoad(t)
SampleScan == \E t \in Threads : UpdateScan(t)
SampleCas == \E t \in Threads : UpdateCas(t)

NextSample ==
    \/ SampleAppend
    \/ SampleUpdate
    \/ SampleLoad
    \/ SampleScan
    \/ SampleCas

SpecSample == Init /\ [][NextSample]_vars

\* the CID lists passed to update_sampling_metadata: empty, single, a repeated
\* CID, and two CIDs in both orders
CidLists == {<<>>, <<1>>, <<1, 1>>, <<1, 2>>, <<2, 1>>}

\* the in-memory store with one caller that updates the sampling metadata with
\* every flag and CID list, keeping the arguments of its last two calls
MergeAppend == \E height \in 1..MergeMaxHeight : MemAppend(<<height, 0>>)

MergeUpdate ==
    \E height \in 0..(MergeMaxHeight + 1), accepted \in BOOLEAN, cids \in CidLists :
        UpdateSamplingMetadata(1, height, accepted, cids, TRUE)

MergeLoad == UpdateLoad(1)
MergeScan == UpdateScan(1)
MergeCas == UpdateCas(1)

NextMerge ==
    \/ MergeAppend
    \/ MergeUpdate
    \/ MergeLoad
    \/ MergeScan
    \/ MergeCas

SpecMerge == Init /\ [][NextMerge]_vars

\* ExtendedHeader::verify on headers of the generator and on headers that differ
\* from them in one or more of the fields verify reads, under clock readings around
\* the headers' times minus the allowed drift
VerifyTrusted ==
    { [GenHeader(height, 0) EXCEPT !.next_validators_hash = nvh] :
         height \in 1..VerifyMaxHeight, nvh \in {VSetHash, VSetHash + 1} }

VerifyUntrusted ==
    { [GenHeader(height, 0) EXCEPT !.chain_id = chain_id, !.time = time,
                                   !.validators_hash = vh,
                                   !.last_header_hash = lhh, !.signers = signers] :
         height \in 1..VerifyMaxHeight, chain_id \in {1, 2},
         time \in (TimeBase + 1)..(TimeBase + VerifyMaxHeight),
         vh \in {VSetHash, VSetHash + 1},
         lhh \in {GenHash(1, 0), GenHash(2, 1)},
         signers \in {VSetHash, VSetHash + 1} }

VerifyNows ==
    (TimeBase - VERIFY_CLOCK_DRIFT)..(TimeBase - VERIFY_CLOCK_DRIFT + VerifyMaxHeight + 1)

InitVerify ==
    /\ InitStore
    /\ call_args \in [ fn : {"verify"}, trusted : VerifyTrusted,
                       untrusted : VerifyUntrusted, now : VerifyNows ]
    /\ call_ret = NotReturned

CallVerify ==
    /\ call_args.fn = "verify"
    /\ ~call_ret.done
    /\ call_ret' = [ done |-> TRUE,
                     ok |-> Verify(call_args.trusted, call_args.untrusted, call_args.now) ]
    /\ UNCHANGED call_args
    /\ UNCHANGED store_vars

NextVerify == CallVerify

SpecVerify == InitVerify /\ [][NextVerify]_vars

\* ExtendedHeader::verify_adjacent_range on a header of the main chain and every
\* tail of main-chain and sibling headers, in any order of heights
AdjacentHeaders == { GenHeader(height, v) : height \in 1..AdjacentMaxHeight, v \in {0, 1} }

AdjacentTails ==
    UNION { [1..n -> AdjacentHeaders] : n \in 0..AdjacentMaxLen }

InitAdjacent ==
    /\ InitStore
    /\ call_args \in [ fn : {"verify_adjacent_range"},
                       trusted : { GenHeader(height, 0) : height \in 1..2 },
                       tail : AdjacentTails,
                       now : Nows ]
    /\ call_ret = NotReturned

CallVerifyAdjacentRange ==
    /\ call_args.fn = "verify_adjacent_range"
    /\ ~call_ret.done
    /\ call_ret' = [ done |-> TRUE,
                     ok |-> verify_adjacent_range(call_args.trusted, call_args.tail,
                                                  call_args.now) ]
    /\ UNCHANGED call_args
    /\ UNCHANGED store_vars

NextAdjacent == CallVerifyAdjacentRange

SpecAdjacent == InitAdjacent /\ [][NextAdjacent]_vars

\* ExtendedHeader::validate on headers of the generator and on headers that differ
\* from them in one or more of the fields validate compares, called at either clock
\* reading
ValidateHeaders ==
    { [GenHeader(height, 0) EXCEPT !.validators_hash = vh, !.data_hash = dh,
                                   !.commit_height = height + ch,
                                   !.hash = GenHash(height, v),
                                   !.signers = signers] :
         height \in 0..ValidateMaxHeight,
         vh \in {VSetHash, VSetHash + 1},
         dh \in {DahHash, DahHash + 1},
         ch \in {0, 1},
         v \in {0, 1},
         signers \in {VSetHash, DefaultHash} }

InitValidate ==
    /\ InitStore
    /\ call_args \in [ fn : {"validate"}, header : ValidateHeaders, now : Nows ]
    /\ call_ret = NotReturned

CallValidate ==
    /\ call_args.fn = "validate"
    /\ ~call_ret.done
    /\ call_ret' = [ done |-> TRUE, ok |-> Validate(call_args.header) ]
    /\ UNCHANGED call_args
    /\ UNCHANGED store_vars

NextValidate == CallValidate

SpecValidate == InitValidate /\ [][NextValidate]_vars

\* NamespacedDataId <-> CID on pairs of ids: namespaces of version 0 with a two-byte
\* id, row indices and heights that differ in their low byte, their high byte or
\* both, and two hashes
NamespaceV0(a, b) ==
    [i \in 1..NS_SIZE |-> IF i = NS_SIZE THEN b ELSE IF i = NS_SIZE - 1 THEN a ELSE 0]

DataIds ==
    [ namespace : {NamespaceV0(0, 1), NamespaceV0(1, 0)},
      row_index : {0, 5, 256, 1280},
      hash : {[i \in 1..HASH_SIZE |-> 255], [i \in 1..HASH_SIZE |-> IF i = 1 THEN 5 ELSE 0]},
      block_height : {0, 1, 100, 25600} ]

InitCid ==
    /\ InitStore
    /\ call_args \in [ fn : {"cid"}, x : DataIds, y : DataIds ]
    /\ call_ret = NotReturned

\* both ids are converted to CIDs and the first CID is converted back
CallCidRoundTrip ==
    /\ call_args.fn = "cid"
    /\ ~call_ret.done
    /\ \E x_cid \in {CidFromId(call_args.x)} :
          call_ret' = [ done |-> TRUE,
                        ok |-> IsOk(IdFromCid(x_cid)),
                        x_cid |-> x_cid,
                        y_cid |-> CidFromId(call_args.y),
                        x_back |-> IdFromCid(x_cid) ]
    /\ UNCHANGED call_args
    /\ UNCHANGED store_vars

NextCid == CallCidRoundTrip

SpecCid == InitCid /\ [][NextCid]_vars

\* TryFrom<CidGeneric> for NamespacedDataId on CIDs of either codec and multihash
\* code (the tests' 4321 and 888 are the wrong ones) whose digest is the encoding of
\* an id, one byte shorter, or one byte longer
CidCodecs == {NAMESPACED_DATA_ID_CODEC, 4321}
CidMultihashCodes == {NAMESPACED_DATA_ID_MULTIHASH_CODE, 888}

\* the digest of the CID: the encoded id with `extra` bytes more (or one less)
CidDigest(id, extra) ==
    IF extra < 0 THEN SubSeq(encode(id), 1, Len(encode(id)) - 1)
    ELSE IF extra > 0 THEN encode(id) \o <<0>>
    ELSE encode(id)

CidOfArgs(args) ==
    [ version |-> 1,
      codec |-> args.codec,
      hash |-> [ code |-> args.code,
                 size |-> Len(CidDigest(args.id, args.extra)),
                 digest |-> CidDigest(args.id, args.extra) ] ]

InitCidDecode ==
    /\ InitStore
    /\ call_args \in [ fn : {"id_from_cid"}, codec : CidCodecs, code : CidMultihashCodes,
                       id : DataIds, extra : {-1, 0, 1} ]
    /\ call_ret = NotReturned

CallIdFromCid ==
    /\ call_args.fn = "id_from_cid"
    /\ ~call_ret.done
    /\ \E res \in {IdFromCid(CidOfArgs(call_args))} :
          call_ret' = [ done |-> TRUE, ok |-> IsOk(res), kind |-> res.kind, res |-> res ]
    /\ UNCHANGED call_args
    /\ UNCHANGED store_vars

NextCidDecode == CallIdFromCid

SpecCidDecode == InitCidDecode /\ [][NextCidDecode]_vars

\* calculate_range_to_fetch on every valid range set over the heights
\* 1..FetchMaxHeight, every head height up to one above them and every limit
IntervalsOf(heights) ==
    { r \in heights \X heights :
        /\ r[1] <= r[2]
        /\ \A h \in r[1]..r[2] : h \in heights
        /\ (r[1] - 1) \notin heights
        /\ (r[2] + 1) \notin heights }

\* the range set that holds exactly the heights: its intervals in ascending order
RangeSetOf(heights) ==
    LET starts == KeysInOrder({ r[1] : r \in IntervalsOf(heights) })
    IN [ i \in 1..Len(starts) |-> CHOOSE r \in IntervalsOf(heights) : r[1] = starts[i] ]

FetchRangeSets == { RangeSetOf(heights) : heights \in SUBSET (1..FetchMaxHeight) }

InitFetch ==
    /\ InitStore
    /\ call_args \in [ fn : {"calculate_range_to_fetch"},
                       subjective_head_height : 0..(FetchMaxHeight + 1),
                       store_headers : FetchRangeSets,
                       limit : 1..FetchMaxLimit ]
    /\ call_ret = NotReturned

CallCalculateRangeToFetch ==
    /\ call_args.fn = "calculate_range_to_fetch"
    /\ ~call_ret.done
    /\ call_ret' = [ done |-> TRUE, ok |-> TRUE,
                     range |-> calculate_range_to_fetch(call_args.subjective_head_height,
                                                        call_args.store_headers,
                                                        call_args.limit) ]
    /\ UNCHANGED call_args
    /\ UNCHANGED store_vars

NextFetch == CallCalculateRangeToFetch

SpecFetch == InitFetch /\ [][NextFetch]_vars

\* get_range next to inserts of runs of the main chain: every pair of bounds up to one
\* above the highest height, on every store the inserts produce
GetRangeBounds ==
    {Unbounded} \cup { Included(x) : x \in 0..(GetRangeMaxHeight + 1) }
                \cup { Excluded(x) : x \in 0..(GetRangeMaxHeight + 1) }

\* the store is filled by inserts, and then asked once for a range
GetRangeInsert ==
    /\ ~call_ret.done
    /\ \E headers \in RangeBatches(GetRangeMaxHeight) : Insert(headers, FALSE, 0, TRUE)

CallGetRange ==
    /\ ~call_ret.done
    /\ \E start_bound \in GetRangeBounds, end_bound \in GetRangeBounds :
          /\ call_args' = [ fn |-> "get_range", start |-> start_bound, end |-> end_bound ]
          /\ call_ret' = [ done |-> TRUE ]
                            @@ get_range(header_store, head, start_bound, end_bound)
          /\ UNCHANGED store_vars

NextGetRange == GetRangeInsert \/ CallGetRange

SpecGetRange == Init /\ [][NextGetRange]_vars

\* a database written by version 1 of the store, which appended the headers of
\* heights 1..=H in order and had no other table; H = 0 is a database that does not
\* exist yet.  No store is open on it.
InitOpen ==
    /\ \E H \in 0..OpenMaxHeight :
          /\ header_store = { <<h, 0>> : h \in 1..H }
          /\ newest = IF H = 0 THEN NoHeader ELSE <<H, 0>>
    /\ ranges_store = <<>>
    /\ sampling_store = <<>>
    /\ head = NoHeader
    /\ last = Closed
    /\ InitTasks
    /\ call_args = NoArgs
    /\ call_ret = NotReturned

\* the calls on an open store: committed unverified inserts of runs of the main
\* chain, and sampling results
OpenInsert ==
    /\ last.op # "closed"
    /\ \E headers \in RangeBatches(OpenMaxHeight) : Insert(headers, FALSE, 0, TRUE)

OpenUpdateSampling ==
    \E height \in 1..OpenMaxHeight, status \in {"Accepted"}, cids \in {<<>>, <<1>>} :
        IdbUpdateSamplingMetadata(height, status, cids)

\* the in-memory store next to it, under appends of headers of the main chain
OpenMemAppend ==
    \E height \in 1..OpenMemMaxHeight : MemAppend(<<height, 0>>)

NextOpen == Open \/ OpenInsert \/ OpenUpdateSampling \/ OpenMemAppend

SpecOpen == InitOpen /\ [][NextOpen]_vars

\* the append methods on both backends: every method of the IndexedDB store with
\* every batch, and append_single_unchecked of the in-memory store, which overrides
\* the default method
AppendCall ==
    \E op \in AppendMethods, headers \in Batches(AppendMaxHeight) :
        \E now \in ClockReadings(AppendVerifies(op)) :
            AppendMethod(op, headers, now, TRUE)

AppendMemCall ==
    \E height \in 1..AppendMaxHeight : MemAppend(<<height, 0>>)

NextAppend == AppendCall \/ AppendMemCall

SpecAppend == Init /\ [][NextAppend]_vars

\* both backends offered headers of height 0: the IndexedDB store takes runs of the
\* main chain, the header of height 0 alone and followed by the header of height 1,
\* and a descending pair, whose range of heights is empty; the in-memory store takes
\* headers of the main chain and the header of height 0
ZeroBatches ==
    RangeBatches(ZeroMaxHeight)
      \cup { <<ZeroHeader>>, <<ZeroHeader, <<1, 0>> >>, << <<2, 0>>, <<1, 0>> >> }

ZeroInsert == \E headers \in ZeroBatches : Insert(headers, FALSE, 0, TRUE)

ZeroMemAppend ==
    \E header \in { <<h, 0>> : h \in 1..ZeroMaxHeight } \cup {ZeroHeader} : MemAppend(header)

NextZero == ZeroInsert \/ ZeroMemAppend

SpecZero == Init /\ [][NextZero]_vars

\* the IndexedDB store filled by the verifying append methods only, with every
\* offered batch, both clock readings and a transaction that commits or not
VerifiedAppend ==
    \E op \in {"append", "append_single"}, headers \in Batches(VerifiedMaxHeight),
       now \in Nows, tx_commits \in BOOLEAN :
        AppendMethod(op, headers, now, tx_commits)

NextVerified == VerifiedAppend

SpecVerified == Init /\ [][NextVerified]_vars

\* the batches passed to validate_headers: at position i the main chain's header of
\* height i or the header of height i that fails validate()
YieldBatches ==
    UNION { [ 1..len -> {0, 2} ] : len \in 0..YieldMaxLen }

YieldBatch(variants) == [ i \in 1..Len(variants) |-> <<i, variants[i]>> ]

InitYield ==
    /\ InitStore
    /\ call_args \in { [ fn |-> "validate_headers", headers |-> YieldBatch(variants) ] :
                          variants \in YieldBatches }
    /\ call_ret = ValidateTask(FALSE, Ok, 1, 0, FALSE, FALSE)

NextYield == VhReturnEmpty \/ VhValidateHeader \/ OtherTaskPoll \/ VhResume

SpecYield == InitYield /\ [][NextYield]_vars

\* the in-memory store under two threads that append headers of the main chain and
\* their siblings and a thread that reads by height, every step of a thread
\* interleaved with the steps of the others
MtHeaders(maxh) == (1..maxh) \X {0, 1}

MtAppender(t, maxh) ==
    \/ \E header \in MtHeaders(maxh) : MtAppendCall(t, header)
    \/ MtLockHash(t)
    \/ MtLockHeight(t)
    \/ MtInsertHash(t)
    \/ MtInsertHeight(t)
    \/ MtStoreHead(t)

MtReader(t, maxh) ==
    \/ \E height \in 1..maxh : MtReadCall(t, height)
    \/ MtReadHash(t)
    \/ MtReadHeader(t)

NextThreads ==
    \/ \E t \in Appenders : MtAppender(t, MtMaxHeight)
    \/ \E t \in Readers : MtReader(t, MtMaxHeight)

SpecThreads == Init /\ [][NextThreads]_vars

\* the same threads racing for the lowest heights, under a scheduler that runs every
\* thread that can take a step, and locks that are handed to every thread that keeps
\* waiting for them
NextThreadsFair ==
    \/ \E t \in Appenders : MtAppender(t, MtFairMaxHeight)
    \/ \E t \in Readers : MtReader(t, MtFairMaxHeight)

SpecThreadsFair ==
    /\ Init
    /\ [][NextThreadsFair]_vars
    /\ \A t \in Appenders :
          /\ SF_vars(MtLockHash(t) \/ MtLockHeight(t))
          /\ WF_vars(MtInsertHash(t) \/ MtInsertHeight(t) \/ MtStoreHead(t))
    /\ \A t \in Readers : SF_vars(MtReadHash(t) \/ MtReadHeader(t))

\* next_batch on the iterator of every valid range set, every call with a limit of
\* its own that is at least one
IterRangeSets == { RangeSetOf(heights) : heights \in SUBSET (1..IterMaxHeight) }

InitBatches ==
    /\ InitStore
    /\ call_args \in [ fn : {"next_batch"}, ranges : IterRangeSets, limit : {0} ]
    /\ call_ret = IterState(into_iter(call_args.ranges), NoRange, {}, FALSE, 0)

NextBatches == \E limit \in 1..IterMaxLimit : IterNextBatch(limit)

SpecBatches == InitBatches /\ [][NextBatches]_vars

\* an iterator driven to its end by one caller: next_batch with the same limit in
\* every call, zero included, or next()
InitIterate ==
    /\ InitStore
    /\ call_args \in [ fn : {"next_batch"}, ranges : IterRangeSets,
                       limit : 0..IterMaxLimit ]
                     \cup [ fn : {"next"}, ranges : IterRangeSets, limit : {0} ]
    /\ call_ret = IterState(into_iter(call_args.ranges), NoRange, {}, FALSE, 0)

IterateNextBatch == IterNextBatch(call_args.limit)

NextIterate == IterateNextBatch \/ IterNext

SpecIterate == InitIterate /\ [][NextIterate]_vars

\* a task in wait_new_head next to inserts of runs of the main chain, committed or not
InitNewHead ==
    /\ InitStore
    /\ call_args = [fn |-> "wait_new_head"]
    /\ call_ret = NewHeadPending

NextNewHead ==
    \/ WaitInsert
    \/ WaitNewHeadCall
    \/ WaitNewHeadResume

\* the waiting task is polled once it has been woken
SpecNewHead ==
    /\ InitNewHead
    /\ [][NextNewHead]_vars
    /\ WF_vars(WaitNewHeadResume)

\* the same with every transaction committing
CommittedInsert == \E headers \in WaitStoreBatches : Insert(headers, FALSE, 0, TRUE)

NextNewHeadCommitted ==
    \/ CommittedInsert
    \/ WaitNewHeadCall
    \/ WaitNewHeadResume

SpecNewHeadCommitted ==
    /\ InitNewHead
    /\ [][NextNewHeadCommitted]_vars
    /\ WF_vars(WaitNewHeadResume)

----------------------------------------------------------------------------
(* Claims *)

\* the step is a call of insert that returns: `last` holds its arguments and result
InsertReturns == last' # last /\ last'.op = "insert"

\* the step is the return of a call of the in-memory append_single_unchecked
MemAppendReturns == mem_last' # mem_last /\ mem_last'.op = "append"

\* a valid range set: every range non-empty and from height 1 on, the ranges in
\* ascending order, and a gap of at least one height between two of them
ValidRanges(ranges) ==
    \A i \in 1..Len(ranges) :
        /\ ranges[i][1] >= 1
        /\ ranges[i][1] <= ranges[i][2]
        /\ i < Len(ranges) => ranges[i][2] + 1 < ranges[i + 1][1]

\* C1: the range set the store reports is valid at every moment: its ranges are
\* non-empty, start at height 1 or above, are sorted, and neither overlap nor touch.
C1_RangesValid == ValidRanges(get_stored_header_ranges(ranges_store))

\* the largest end over the ranges of a non-empty range set
MaxRangeEnd(ranges) ==
    CHOOSE e \in { ranges[i][2] : i \in 1..Len(ranges) } :
        \A i \in 1..Len(ranges) : ranges[i][2] <= e

\* C2: every height that has_at reports has a stored header of that height, and
\* looking that header up by its hash returns the same header.
C2_CoveredHeightsStored ==
    \A h \in 1..TopHeight :
        contains_height(ranges_store, h) =>
            /\ get_by_height(header_store, h) # NoHeader
            /\ HeightOf(get_by_height(header_store, h)) = h
            /\ get_by_hash(header_store, HashOf(get_by_height(header_store, h)))
                 = get_by_height(header_store, h)

\* C3: in a non-empty store head_height() is the largest end over the stored ranges
\* and get_head() is the header stored at that height.
C3_HeadIsMaxRangeEnd ==
    header_store # {} =>
        /\ get_head_height(head)
             = Res("Ok", MaxRangeEnd(get_stored_header_ranges(ranges_store)), 0)
        /\ get_head(head)
             = get_by_height(header_store,
                             MaxRangeEnd(get_stored_header_ranges(ranges_store)))

\* C4: every header put in the store by a successful insert is reflected by every
\* later read: has_at of its height is true, get_by_height and get_by_hash return
\* it, and head_height() is at least its height.  (The headers table holds exactly
\* the headers of the successful inserts.)
C4_InsertedHeadersReadable ==
    \A x \in header_store :
        /\ contains_height(ranges_store, HeightOf(x))
        /\ get_by_height(header_store, HeightOf(x)) = x
        /\ get_by_hash(header_store, HashOf(x)) = x
        /\ IsOk(get_head_height(head))
        /\ get_head_height(head).a >= HeightOf(x)

\* C5: an insert of a batch with a pair of consecutive headers that is not height,
\* height + 1 returns InsertRangeWithGap for the first such pair, whatever
\* verify_neighbours is, and leaves headers, ranges and head as they were.
C5_GapBatchRejected ==
    [][ (InsertReturns /\ ~IsOk(verify_range_contiguous(last'.headers))) =>
          /\ last'.res = verify_range_contiguous(last'.headers)
          /\ UNCHANGED <<header_store, ranges_store, head>> ]_vars

\* the errors insert returns before or while it reserves the range
ReservationErrors == {"InvalidInsertion", "HeaderRangeOverlap", "InsertPlacementDisallowed"}

\* C6: an insert that fails after the range reservation leaves the stored ranges,
\* the stored headers and the cached head as they were and notifies no waiter.
C6_FailedInsertUndone ==
    [][ (InsertReturns /\ ~IsOk(last'.res)
           /\ last'.res.kind \notin ReservationErrors) =>
          /\ UNCHANGED <<header_store, ranges_store, head>>
          /\ ~last'.notified
          /\ wfired' = wfired ]_vars

\* the parts of the stored ranges that the interval lo..hi shares with them
Overlaps(ranges, lo, hi) ==
    { ranges_intersection(ranges[i], <<lo, hi>>) : i \in 1..Len(ranges) } \ {NoRange}

\* C7 on the IndexedDB backend
C7IdbStep ==
    (/\ InsertReturns
     /\ last'.headers # <<>>
     /\ Overlaps(get_stored_header_ranges(ranges_store), HeightOf(last'.headers[1]),
                 HeightOf(last'.headers[Len(last'.headers)])) # {}) =>
        /\ \E x \in Overlaps(get_stored_header_ranges(ranges_store),
                              HeightOf(last'.headers[1]),
                              HeightOf(last'.headers[Len(last'.headers)])) :
              last'.res = Res("HeaderRangeOverlap", x[1], x[2])
        /\ header_store' = header_store

\* C7 on the in-memory backend, whose stored range is 1..=head_height
C7MemStep ==
    (/\ MemAppendReturns
     /\ mem_contains_height(mem_head_height, HeightOf(mem_last'.header))) =>
        /\ mem_last'.res = Res("HeaderRangeOverlap", HeightOf(mem_last'.header),
                               HeightOf(mem_last'.header))
        /\ mem_headers' = mem_headers
        /\ mem_height_to_hash' = mem_height_to_hash

\* C7: on every backend an insert of a batch that shares a height with a stored
\* range fails with HeaderRangeOverlap(a, b), a..=b being the shared part, whether
\* the offered header is the stored one or another one, and nothing stored changes.
C7_OverlapRejected == [][C7IdbStep /\ C7MemStep]_vars

\* the maximal intervals of a set of heights
MaximalIntervals(heights) ==
    { r \in heights \X heights :
        /\ r[1] <= r[2]
        /\ \A h \in r[1]..r[2] : h \in heights
        /\ (r[1] - 1) \notin heights
        /\ (r[2] + 1) \notin heights }

\* C8: in whatever order contiguous batches that do not overlap were inserted, the
\* range set is the same: the maximal intervals of the union of the inserted
\* heights, in ascending order.
C8_OrderIndependentRanges ==
    LET ranges == get_stored_header_ranges(ranges_store)
    IN /\ { ranges[i] : i \in 1..Len(ranges) }
            = MaximalIntervals({ HeightOf(x) : x \in header_store })
       /\ \A i \in 1..(Len(ranges) - 1) : ranges[i][1] < ranges[i + 1][1]

\* a stored range ends at / starts at the height
RangeEndsAt(ranges, height) == \E i \in 1..Len(ranges) : ranges[i][2] = height
RangeStartsAt(ranges, height) == \E i \in 1..Len(ranges) : ranges[i][1] = height

\* verify(stored header at the height, header) when the stored header is the
\* trusted one, and verify(header, stored header at the height) otherwise
VerifiesWithStored(hs, height, header, stored_is_trusted, now) ==
    /\ get_by_height(hs, height) # NoHeader
    /\ IF stored_is_trusted
       THEN Verify(HeaderOf[get_by_height(hs, height)], HeaderOf[header], now)
       ELSE Verify(HeaderOf[header], HeaderOf[get_by_height(hs, height)], now)

\* the neighbour checks of a batch against the store it is offered to
NeighbourChecksPass(hs, ranges, headers, now) ==
    /\ RangeEndsAt(ranges, HeightOf(headers[1]) - 1) =>
         VerifiesWithStored(hs, HeightOf(headers[1]) - 1, headers[1], TRUE, now)
    /\ RangeStartsAt(ranges, HeightOf(headers[Len(headers)]) + 1) =>
         VerifiesWithStored(hs, HeightOf(headers[Len(headers)]) + 1,
                            headers[Len(headers)], FALSE, now)

\* C9: insert with verify_neighbours = true succeeds only if the batch verifies
\* against the stored header below its first height and against the stored header
\* above its last height, where a stored range ends / starts there; a batch
\* rejected with a verification error leaves the range set as it was.
C9_NeighboursVerified ==
    [][ (InsertReturns /\ last'.verify /\ last'.headers # <<>>) =>
          /\ IsOk(last'.res) =>
               NeighbourChecksPass(header_store, get_stored_header_ranges(ranges_store),
                                   last'.headers, last'.now)
          /\ last'.res.kind = "VerificationError" =>
               get_stored_header_ranges(ranges_store')
                 = get_stored_header_ranges(ranges_store) ]_vars

\* the wait_height task is between its call and its return
Waiting == wpc \in {"check", "checked", "await", "rearm"}

C11_ReturnsOnlyWhenStored ==
    [][ /\ (wpc' = "done" /\ wpc # "done") =>
              (wpc = "check" /\ contains_height(ranges_store, wheight))
        /\ (wpc = "check" /\ contains_height(ranges_store, wheight)) =>
              wpc' \in {"check", "done"}
        /\ (Waiting /\ ~contains_height(ranges_store', wheight)) => wpc' # "done" ]_vars

\* C11 witness: the task was woken by an insert of another height and goes back to
\* its check, its own height still not stored
C11_Witness ==
    /\ wpc = "rearm"
    /\ wfired
    /\ ~contains_height(ranges_store, wheight)
    /\ last.op = "insert"
    /\ IsOk(last.res)
    /\ last.headers # <<>>

\* C12: next_unsampled_height is 1 on a new store and never decreases, under
\* every interleaving of the threads that update the sampling metadata.
C12_CursorMonotone ==
    /\ get_next_unsampled_height(lowest_unsampled_height) = 1
    /\ [][ get_next_unsampled_height(lowest_unsampled_height')
             >= get_next_unsampled_height(lowest_unsampled_height) ]_vars

\* C12 witness: the cursor has advanced while another thread still holds the value
\* it loaded before, so that its compare-and-swap will fail
C12_Witness ==
    /\ lowest_unsampled_height > 1
    /\ \E t \in Threads :
          /\ sth[t].pc = "cas"
          /\ sth[t].previous_height < lowest_unsampled_height
          /\ sth[t].current_height < lowest_unsampled_height

\* no update_sampling_metadata call is in progress
Quiescent == \A t \in Threads : sth[t].pc = "idle"

\* the smallest height >= 1 without a sampling entry
LowestUnsampled(sd) ==
    CHOOSE h \in 1..(SampleMaxHeight + 1) :
        /\ h \notin DOMAIN sd
        /\ \A k \in 1..(h - 1) : k \in DOMAIN sd

\* C13: whenever no update is in progress, next_unsampled_height is the smallest
\* height >= 1 that has no sampling entry.
C13_CursorIsLowestUnsampled ==
    Quiescent =>
        get_next_unsampled_height(lowest_unsampled_height) = LowestUnsampled(sampling_data)

\* C13 witness: heights 1 and 3 are sampled, 2 is not, no call is in progress and
\* the cursor is 2
C13_Witness ==
    /\ Quiescent
    /\ DOMAIN sampling_data = {1, 3}
    /\ lowest_unsampled_height = 2

\* the CIDs of a list, each once, in order of first occurrence
Dedup(cids) == PushMissing(<<>>, cids, 1)

\* the last two calls of update_sampling_metadata succeeded on the same height,
\* and the first of them created the entry
TwoUpdatesOfNewEntry ==
    /\ smp_prev.op = "update" /\ IsOk(smp_prev.res) /\ smp_prev.new_inserted
    /\ smp_last.op = "update" /\ IsOk(smp_last.res)
    /\ smp_last.height = smp_prev.height

\* C14: after update_sampling_metadata(h, a1, L1) and then
\* update_sampling_metadata(h, a2, L2) on a stored height h the entry holds
\* accepted = a2 and cids = dedup(L1 ++ L2), whether or not a list repeats a CID.
C14_MergeIsDedup ==
    TwoUpdatesOfNewEntry =>
        sampling_data[smp_last.height] =
            [ accepted |-> smp_last.accepted,
              cids_sampled |-> Dedup(smp_prev.cids \o smp_last.cids) ]

\* the step is the entry step of a call of update_sampling_metadata: `smp_last`
\* holds its arguments and result
UpdateCalled == smp_last' # smp_last /\ smp_last'.op = "update"

\* a header is stored at the height
HeaderStoredAt(h2h, height) == \E e \in h2h : e[1] = height

\* C15: update_sampling_metadata for a height that is not stored (0, any height on
\* an empty store, head + 1 or beyond) returns NotFound, creates no sampling entry
\* and leaves next_unsampled_height unchanged.
C15_UpdateUnstoredNotFound ==
    [][ (UpdateCalled /\ ~HeaderStoredAt(mem_height_to_hash, smp_last'.height)) =>
            /\ smp_last'.res = NotFound
            /\ sampling_data' = sampling_data
            /\ sth' = sth
            /\ get_next_unsampled_height(lowest_unsampled_height')
                 = get_next_unsampled_height(lowest_unsampled_height) ]_vars

\* C15 witness: on a store with headers and sampling entries, an update for
\* head + 1 has returned NotFound while the other thread is inside its update
C15_Witness ==
    /\ smp_last.op = "update" /\ smp_last.res = NotFound
    /\ mem_head_height >= 1 /\ smp_last.height = mem_head_height + 1
    /\ sampling_data # <<>>
    /\ smp_last.height \notin DOMAIN sampling_data
    /\ \E t \in Threads : sth[t].pc = "scan"

\* the three results of get_sampling_metadata
IsNotFound(r) == r.kind = "NotFound"
IsNone(r) == IsOk(r) /\ r.a = FALSE
IsSome(r) == IsOk(r) /\ r.a = TRUE

\* every CID of the list is in the list `within`
AllIn(cids, within) ==
    \A i \in 1..Len(cids) : \E j \in 1..Len(within) : within[j] = cids[i]

\* the step is a successful call of update_sampling_metadata
UpdatedOk == UpdateCalled /\ IsOk(smp_last'.res)

\* C16: get_sampling_metadata(height) is NotFound when no header is stored at the
\* height (0 included), Ok(None) when the header is stored and was never sampled,
\* and Ok(Some(m)) with the flag and CIDs of the latest updates otherwise;
\* inserting headers never creates sampling entries.  The first conjunct relates
\* the three results to the stored headers and entries in every state; the second
\* says that entries appear and change only by a successful update of their
\* height, which then holds the flag of the call, its CIDs and the earlier CIDs.
C16_GetSamplingMetadata ==
    /\ [](\A height \in 0..(SampleMaxHeight + 1) :
            \E got \in {mem_get_sampling_metadata(sampling_data, mem_head_height, height)} :
               /\ IsNotFound(got) <=> ~HeaderStoredAt(mem_height_to_hash, height)
               /\ IsNone(got) <=> (HeaderStoredAt(mem_height_to_hash, height)
                                     /\ height \notin DOMAIN sampling_data)
               /\ IsSome(got) <=> (HeaderStoredAt(mem_height_to_hash, height)
                                     /\ height \in DOMAIN sampling_data)
               /\ IsSome(got) => got.b = sampling_data[height])
    /\ [][ /\ UpdatedOk =>
                \E height \in {smp_last'.height} :
                \E after \in {mem_get_sampling_metadata(sampling_data', mem_head_height', height)} :
                   /\ IsSome(after)
                   /\ after.b.accepted = smp_last'.accepted
                   /\ AllIn(smp_last'.cids, after.b.cids_sampled)
                   /\ height \in DOMAIN sampling_data =>
                         AllIn(sampling_data[height].cids_sampled, after.b.cids_sampled)
                   /\ \A other \in DOMAIN sampling_data' \ {height} :
                         /\ other \in DOMAIN sampling_data
                         /\ sampling_data'[other] = sampling_data[other]
           /\ ~UpdatedOk => sampling_data' = sampling_data
           /\ MemAppendReturns => sampling_data' = sampling_data ]_vars

\* C16 witness: height 1 was sampled first with (false, [1, 2]) and last with
\* (true, [1]), height 2 is stored and was never sampled, height 3 is not stored
C16_Witness ==
    /\ smp_last = [ op |-> "update", height |-> 1, accepted |-> TRUE, cids |-> <<1>>,
                    res |-> Ok, new_inserted |-> FALSE ]
    /\ IsSome(mem_get_sampling_metadata(sampling_data, mem_head_height, 1))
    /\ sampling_data[1] = [accepted |-> TRUE, cids_sampled |-> <<1, 2>>]
    /\ IsNone(mem_get_sampling_metadata(sampling_data, mem_head_height, 2))
    /\ IsNotFound(mem_get_sampling_metadata(sampling_data, mem_head_height, 3))

\* the last two conditions of verify as the specification states them: an adjacent
\* header continues the trusted one, a later header is signed by the trusted
\* validator set
AdjacentOrTrusted(a, b) ==
    \/ /\ b.height = a.height + 1
       /\ b.validators_hash = a.next_validators_hash
       /\ b.last_header_hash = a.hash
    \/ /\ b.height > a.height + 1
       /\ b.signers = a.vset_hash

VerifyReturned == call_args.fn = "verify" /\ call_ret.done

\* C17 as stated: a.verify(b) succeeds iff a.height < b.height, the chain ids are
\* equal, a.time < b.time, b.time <= now + 10s, and b is either an adjacent header
\* that continues a or a later header whose commit is trusted by a's validator set.
C17_VerifyIff ==
    VerifyReturned =>
        \E a \in {call_args.trusted} : \E b \in {call_args.untrusted} :
            call_ret.ok <=>
                /\ a.height < b.height
                /\ a.chain_id = b.chain_id
                /\ a.time < b.time
                /\ b.time <= call_args.now + VERIFY_CLOCK_DRIFT
                /\ AdjacentOrTrusted(a, b)

\* C17 amended: the same with the time bound strict, b.time < now + 10s.
C17_VerifyIffStrict ==
    VerifyReturned =>
        \E a \in {call_args.trusted} : \E b \in {call_args.untrusted} :
            call_ret.ok <=>
                /\ a.height < b.height
                /\ a.chain_id = b.chain_id
                /\ a.time < b.time
                /\ b.time < call_args.now + VERIFY_CLOCK_DRIFT
                /\ AdjacentOrTrusted(a, b)

\* C17 witness: a header two heights above the trusted one, whose time is the last
\* one before now + 10s, has been verified
C17_Witness ==
    /\ VerifyReturned /\ call_ret.ok
    /\ call_args.untrusted.height = call_args.trusted.height + 2
    /\ call_args.untrusted.time + 1 = call_args.now + VERIFY_CLOCK_DRIFT

\* the header before position i of the tail: the trusted header for the first
Predecessor(trusted, tail, i) == IF i = 1 THEN trusted ELSE tail[i - 1]

\* C18: h.verify_adjacent_range(tail) succeeds iff the heights of tail are exactly
\* h.height + 1, h.height + 2, ... in order and every header of tail verifies against
\* its predecessor (tail[0] against h); an empty tail succeeds, and a tail that skips
\* a height is rejected even when skipping verification would pass.
C18_AdjacentRangeIff ==
    (call_args.fn = "verify_adjacent_range" /\ call_ret.done) =>
        \E h \in {call_args.trusted} : \E tail \in {call_args.tail} :
            /\ call_ret.ok <=>
                  /\ \A i \in 1..Len(tail) : tail[i].height = h.height + i
                  /\ \A i \in 1..Len(tail) :
                        Verify(Predecessor(h, tail, i), tail[i], call_args.now)
            /\ tail = <<>> => call_ret.ok
            /\ (\E i \in 1..Len(tail) :
                    tail[i].height > Predecessor(h, tail, i).height + 1) => ~call_ret.ok

\* C18 witness: a tail of two headers that skips a height, each of which verifies
\* against its predecessor by skipping verification, has been rejected
C18_Witness ==
    /\ call_args.fn = "verify_adjacent_range" /\ call_ret.done /\ ~call_ret.ok
    /\ Len(call_args.tail) = 2
    /\ call_args.tail[1].height = call_args.trusted.height + 1
    /\ call_args.tail[2].height = call_args.tail[1].height + 2
    /\ \A i \in 1..2 :
          Verify(Predecessor(call_args.trusted, call_args.tail, i), call_args.tail[i],
                 call_args.now)

\* the conditions of validate the specification lists, as a list of truth values:
\* the validator set's hash, the DAH hash, the commit's height, the commit's block
\* hash, and the voting power of the commit's signers
ValidateConditions(h) ==
    << h.vset_hash = h.validators_hash,
       h.dah_hash = h.data_hash,
       h.commit_height = h.height,
       h.hash = h.header_hash,
       h.signers = h.vset_hash >>

\* the basic checks of the parts (validate_basic), which read the header alone
BasicChecks(h) == h.height >= 1

\* C19: validate(h) succeeds only if validator_set.hash() = header.validators_hash,
\* the DAH hash = header.data_hash, commit.height = header.height,
\* commit.block_id.hash = header.hash() and the commit carries enough voting power
\* of validator_set; it fails when any one is violated; the result depends on
\* nothing but h.
C19_ValidateConditions ==
    (call_args.fn = "validate" /\ call_ret.done) =>
        \E h \in {call_args.header} : \E conds \in {ValidateConditions(call_args.header)} :
            /\ call_ret.ok => \A i \in 1..Len(conds) : conds[i]
            /\ (\E i \in 1..Len(conds) : ~conds[i]) => ~call_ret.ok
            /\ call_ret.ok <=> (BasicChecks(h) /\ \A i \in 1..Len(conds) : conds[i])

\* C19 witness: a header that violates only the commit-height condition has been
\* rejected
C19_Witness ==
    /\ call_args.fn = "validate" /\ call_ret.done /\ ~call_ret.ok
    /\ BasicChecks(call_args.header)
    /\ ValidateConditions(call_args.header) = <<TRUE, TRUE, FALSE, TRUE, TRUE>>

\* C20: for every valid namespaced-row id x (block_height >= 1), converting x to a
\* CID and back returns x, and two distinct ids (differing in namespace, row_index,
\* hash or block_height) are encoded to distinct CIDs.
C20_CidRoundTrip ==
    (call_args.fn = "cid" /\ call_ret.done) =>
        /\ call_args.x.block_height >= 1 =>
              /\ call_ret.ok
              /\ call_ret.x_back.a = call_args.x
        /\ call_args.x # call_args.y => call_ret.x_cid # call_ret.y_cid

\* C20 witness: two ids that differ only in the row index, 5 and 5 * 256, have been
\* converted to different CIDs and the first has been converted back to itself
C20_Witness ==
    /\ call_args.fn = "cid" /\ call_ret.done
    /\ call_args.x.row_index = 5 /\ call_args.y.row_index = 1280
    /\ call_args.x.block_height = 100
    /\ call_args.y = [call_args.x EXCEPT !.row_index = 1280]
    /\ call_ret.x_cid # call_ret.y_cid
    /\ call_ret.ok /\ call_ret.x_back.a = call_args.x

\* C21: converting a CID to a NamespacedDataId fails with InvalidCidCodec when the
\* codec is not 0x7820, with InvalidMultihashLength when the digest has not the
\* fixed id size, with InvalidMultihashCode when the multihash code is not 0x7821,
\* and with an error when the encoded block height is 0; the checks are applied in
\* that order and a rejected CID yields no id.
C21_CidRejectedInOrder ==
    (call_args.fn = "id_from_cid" /\ call_ret.done) =>
        /\ IF call_args.codec # 30752
           THEN call_ret.kind = "InvalidCidCodec"
           ELSE IF call_args.extra # 0
           THEN call_ret.kind = "InvalidMultihashLength"
           ELSE IF call_args.code # 30753
           THEN call_ret.kind = "InvalidMultihashCode"
           ELSE IF call_args.id.block_height = 0
           THEN ~call_ret.ok
           ELSE call_ret.ok /\ call_ret.res.a = call_args.id
        /\ ~call_ret.ok => call_ret.res.a \in Int

\* C21 witness: a CID with the right codec, a digest one byte short and a wrong
\* multihash code has been rejected for its length
C21_Witness ==
    /\ call_args.fn = "id_from_cid" /\ call_ret.done
    /\ call_args.codec = NAMESPACED_DATA_ID_CODEC
    /\ call_args.extra = -1 /\ call_args.code = 888
    /\ call_args.id.block_height = 0
    /\ call_ret.kind = "InvalidMultihashLength"

\* two ranges are the same range: both empty, or the same bounds
SameRange(x, y) == (RangeIsEmpty(x) /\ RangeIsEmpty(y)) \/ x = y

\* the rightmost `limit` heights of lo..=hi
Rightmost(lo, hi, limit) == <<Max2(lo, hi - limit + 1), hi>>

\* C22: for every subjective head height, every valid stored range set and every
\* limit >= 1, calculate_range_to_fetch returns 1..=min(head, limit) when the store
\* is empty; top.end+1 ..= min(head, top.end+limit) when the topmost range ends below
\* head; otherwise the rightmost `limit` heights of the gap prev_end+1 ..= top.start-1
\* below the topmost range, which is empty when the topmost range covers 1..=head.
C22_RangeToFetch ==
    (call_args.fn = "calculate_range_to_fetch" /\ call_ret.done) =>
        \E head_height \in {call_args.subjective_head_height} :
        \E ranges \in {call_args.store_headers} :
        \E limit \in {call_args.limit} :
            /\ ValidRanges(ranges) /\ limit >= 1
            /\ IF Len(ranges) = 0
               THEN SameRange(call_ret.range, <<1, Min2(head_height, limit)>>)
               ELSE \E top \in {ranges[Len(ranges)]} :
                    \E prev_end \in {IF Len(ranges) >= 2 THEN ranges[Len(ranges) - 1][2] ELSE 0} :
                      IF top[2] < head_height
                      THEN SameRange(call_ret.range,
                                     <<top[2] + 1, Min2(head_height, top[2] + limit)>>)
                      ELSE /\ SameRange(call_ret.range,
                                        Rightmost(prev_end + 1, top[1] - 1, limit))
                           /\ (top[1] = 1 /\ top[2] >= head_height) =>
                                 RangeIsEmpty(call_ret.range)

\* C22 witness: with 1..=1 and 5..=6 stored, head 6 and limit 2, the range to fetch
\* is 3..=4, the two heights just below the topmost range
C22_Witness ==
    /\ call_args.fn = "calculate_range_to_fetch" /\ call_ret.done
    /\ call_args.store_headers = << <<1, 1>>, <<5, 6>> >>
    /\ call_args.subjective_head_height = 6 /\ call_args.limit = 2
    /\ call_ret.range = <<3, 4>>

\* the step is a call of get_range that returns: call_args' holds its bounds and
\* call_ret' its result, on the store of the state the step starts in
GetRangeReturns ==
    /\ <<call_args', call_ret'>> # <<call_args, call_ret>>
    /\ call_args'.fn = "get_range"

\* the interval a pair of bounds stands for when the head is at height H
ResolvedStart(bound) ==
    CASE bound.kind = "Unbounded" -> 1
      [] bound.kind = "Included" -> bound.x
      [] bound.kind = "Excluded" -> bound.x + 1
ResolvedEnd(bound, H) ==
    CASE bound.kind = "Unbounded" -> H
      [] bound.kind = "Included" -> bound.x
      [] bound.kind = "Excluded" -> bound.x - 1

\* the height of the cached head, 0 for a store without one
HeadHeight == IF head = NoHeader THEN 0 ELSE HeightOf(head)

\* the heights with a header in the headers table
StoredHeights == { HeightOf(e) : e \in header_store }

\* the headers stored at heights s..=e, in ascending order
HeadersAt(s, e) ==
    IF s > e THEN <<>>
    ELSE [ i \in 1..(e - s + 1) |-> CHOOSE h \in header_store : HeightOf(h) = s + i - 1 ]

\* the start bound includes height 0 or resolves above the head
StartRefused(bound, H) ==
    \/ bound.kind = "Included" /\ bound.x = 0
    \/ ResolvedStart(bound) > H

\* the end bound resolves above the head
EndRefused(bound, H) == ResolvedEnd(bound, H) > H

C23_WitnessEmpty ==
    /\ call_args.fn = "get_range" /\ call_ret.done /\ call_ret.ok
    /\ call_args.start = Included(3) /\ call_args.end = Excluded(3)
    /\ HeadHeight = 3
    /\ call_ret.headers = <<>>

\* C24: a call of get_range returns an error and no vector when the store is empty,
\* when the start bound includes height 0 or resolves above the head, when the end
\* resolves above the head (the error then being NotFound), or when some height of
\* the resolved interval has no stored header.
C24_GetRangeErrors ==
    [][ GetRangeReturns =>
          \A H \in {HeadHeight} :
          \A s \in {ResolvedStart(call_args'.start)} :
          \A e \in {ResolvedEnd(call_args'.end, H)} :
             /\ ( \/ head = NoHeader
                  \/ StartRefused(call_args'.start, H)
                  \/ EndRefused(call_args'.end, H)
                  \/ \E h \in s..e : h \notin StoredHeights )
                => (~call_ret'.ok /\ call_ret'.headers = <<>>)
             /\ (head # NoHeader /\ EndRefused(call_args'.end, H))
                => call_ret'.kind = "NotFound" ]_vars

\* C24 witness: with headers at heights 1 and 3 only, get_range(..) over 1..=3 is
\* refused because height 2 is missing
C24_Witness ==
    /\ call_args.fn = "get_range" /\ call_ret.done
    /\ call_args.start = Unbounded /\ call_args.end = Unbounded
    /\ StoredHeights = {1, 3} /\ HeadHeight = 3
    /\ ~call_ret.ok /\ call_ret.headers = <<>>

\* the heights and the hashes a new store is asked for
AskedHeights == 0..(OpenMaxHeight + 1)
AskedHashes == { HashOf(id) : id \in HeaderIds } \cup {DefaultHash}

\* the IndexedDB store has just been created: IndexedDbStore::new returned on a
\* database without any header
IdbNewStore == last.op = "new" /\ header_store = {}

\* the in-memory store has just been created: no call of it has returned
MemNewStore == mem_last = MemNoCall /\ mem_call = NoHeader

\* C25: on a newly created store of either backend head_height and get_head are
\* NotFound, get_by_height and get_by_hash are NotFound for every height and hash,
\* has_at is false for every height, and (where the backend reports ranges) the
\* stored header ranges are empty.
C25_NewStoreIsEmpty ==
    /\ IdbNewStore =>
          /\ IsNotFound(get_head_height(head))
          /\ get_head(head) = NoHeader
          /\ \A h \in AskedHeights :
                /\ get_by_height(header_store, h) = NoHeader
                /\ ~contains_height(ranges_store, h)
          /\ \A x \in AskedHashes :
                /\ get_by_hash(header_store, x) = NoHeader
                /\ ~contains_hash(header_store, x)
          /\ get_stored_header_ranges(ranges_store) = <<>>
    /\ MemNewStore =>
          /\ IsNotFound(mem_get_head_height(mem_head_height))
          /\ IsNotFound(mem_get_head(mem_headers, mem_height_to_hash, mem_head_height))
          /\ \A h \in AskedHeights :
                /\ IsNotFound(mem_get_by_height(mem_headers, mem_height_to_hash,
                                                mem_head_height, h))
                /\ ~mem_contains_height(mem_head_height, h)
          /\ \A x \in AskedHashes :
                /\ IsNotFound(mem_get_by_hash(mem_headers, x))
                /\ ~mem_contains_hash(mem_headers, x)

\* C25 witness: both stores have just been created, and the in-memory store is asked
\* for its head height
C25_Witness ==
    /\ IdbNewStore /\ MemNewStore
    /\ IsNotFound(get_head_height(head))
    /\ IsNotFound(mem_get_head_height(mem_head_height))

\* the step closes an open store and opens the database again
Reopens == last'.op = "new" /\ last.op \notin {"closed", "new"}

\* C27: closing and reopening the browser store preserves its state: the reopened
\* store reports the head and the head height the store had before it was closed,
\* and returns the same header for every stored height.
C27_ReopenPreserves ==
    [][ Reopens =>
          /\ get_head(head') = get_head(head)
          /\ get_head_height(head') = get_head_height(head)
          /\ \A h \in 1..OpenMaxHeight :
                get_by_height(header_store', h) = get_by_height(header_store, h) ]_vars

\* the step is a call of IndexedDbStore::new
Opens == last'.op = "new" /\ last' # last

\* C28: opening a store whose headers table is not empty and whose ranges table is
\* empty writes exactly the range 1..=H, H being the height of the head header, so
\* that every height h of 1..=H is reported as stored, its header is read by height
\* and by hash, and its sampling metadata is None; opening a store whose ranges
\* table is not empty, or whose headers table is empty, leaves the ranges table as
\* it was.
C28_MigrationSeedsRange ==
    [][ Opens =>
          IF header_store # {} /\ get_stored_header_ranges(ranges_store) = <<>>
          THEN \E H \in {HeightOf(head')} :
                 /\ get_stored_header_ranges(ranges_store') = << <<1, H>> >>
                 /\ \A h \in 1..H :
                      /\ contains_height(ranges_store', h)
                      /\ \E e \in {get_by_height(header_store', h)} :
                            /\ e # NoHeader /\ HeightOf(e) = h
                            /\ get_by_hash(header_store', HashOf(e)) = e
                      /\ \E m \in {idb_get_sampling_metadata(ranges_store', sampling_store', h)} :
                            m.kind = "Ok" /\ ~m.some
          ELSE ranges_store' = ranges_store ]_vars

\* C28 witness: a version-1 database with the headers 1..=3 has been opened and the
\* ranges table holds 1..=3
C28_Witness ==
    /\ last.op = "new"
    /\ header_store = { <<1, 0>>, <<2, 0>>, <<3, 0>> }
    /\ get_stored_header_ranges(ranges_store) = << <<1, 3>> >>
    /\ sampling_store = <<>>
    /\ head = <<3, 0>>
    /\ contains_height(ranges_store, 2)

\* the step is a call of an append method of the IndexedDB store that returns
AppendReturns == last' # last /\ last'.op \in AppendMethods

\* insert([header], false) on a store that holds the heights 1..=hh, as the range
\* check of insert decides it
InsertOfSingle(hh, header) ==
    check_range_insert(IF hh = 0 THEN <<>> ELSE << <<1, hh>> >>,
                       <<HeightOf(header), HeightOf(header)>>)

\* C26: on both backends and from every store state a call of append_single_unchecked,
\* append_unchecked, append_single or append has the result and the effect on the
\* store of insert with the same headers and verify_neighbours = false, false, true,
\* true.
C26_AppendIsInsert ==
    [][ /\ AppendReturns =>
             \E out \in {InsertOutcome(header_store, ranges_store, head, last'.headers,
                                       AppendVerifies(last'.op), last'.now, TRUE)} :
                /\ last'.res = out.res
                /\ header_store' = out.header_store
                /\ ranges_store' = out.ranges_store
                /\ head' = out.head
        /\ MemAppendReturns =>
             \E expected \in {InsertOfSingle(mem_head_height, mem_last'.header)} :
                /\ IsOk(mem_last'.res) <=> expected.ok
                /\ ~expected.ok => mem_last'.res.kind = expected.err.kind
                /\ expected.ok =>
                      mem_contains_hash(mem_headers', HashOf(mem_last'.header)) ]_vars

\* the IndexedDB half of C26 alone
C26_IdbAppendIsInsert ==
    [][ AppendReturns =>
             \E out \in {InsertOutcome(header_store, ranges_store, head, last'.headers,
                                       AppendVerifies(last'.op), last'.now, TRUE)} :
                /\ last'.res = out.res
                /\ header_store' = out.header_store
                /\ ranges_store' = out.ranges_store
                /\ head' = out.head ]_vars

\* the range of heights of a batch of an insert
BatchRange(headers) == <<HeightOf(headers[1]), HeightOf(headers[Len(headers)])>>

\* the range neither overlaps nor touches a range of the list
AdjacentToNone(ranges, r) ==
    \A i \in 1..Len(ranges) :
        /\ ranges_intersection(ranges[i], r) = NoRange
        /\ try_consolidate_ranges(ranges[i], r) = NoRange

StartsAtZeroOrEmpty(headers) ==
    \/ HeightOf(headers[1]) = 0
    \/ HeightOf(headers[1]) > HeightOf(headers[Len(headers)])

\* C30: height 0 is never stored on either backend: has_at(0) is false in every
\* reachable state, and an insert whose batch starts at height 0, or whose range of
\* heights is empty, is rejected with InvalidInsertion and changes nothing.
C30_ZeroHeightRejected ==
    [][ /\ ~contains_height(ranges_store', 0)
        /\ ~mem_contains_height(mem_head_height', 0)
        /\ (InsertReturns /\ Len(last'.headers) > 0 /\ StartsAtZeroOrEmpty(last'.headers)) =>
              /\ last'.res.kind = "InvalidInsertion"
              /\ UNCHANGED <<header_store, ranges_store, head>>
        /\ (MemAppendReturns /\ HeightOf(mem_last'.header) = 0) =>
              /\ mem_last'.res.kind = "InvalidInsertion"
              /\ UNCHANGED <<mem_headers, mem_height_to_hash, mem_head_height>> ]_vars

\* what holds of C30: has_at(0) is false on both backends, an insert of the IndexedDB
\* store is rejected as claimed, and the in-memory store rejects a header of height 0
\* without storing it, with HeightExists or NonContinuousAppend
C30_ZeroHeightNeverStored ==
    [][ /\ ~contains_height(ranges_store', 0)
        /\ ~mem_contains_height(mem_head_height', 0)
        /\ (InsertReturns /\ Len(last'.headers) > 0 /\ StartsAtZeroOrEmpty(last'.headers)) =>
              /\ last'.res.kind = "InvalidInsertion"
              /\ UNCHANGED <<header_store, ranges_store, head>>
        /\ (MemAppendReturns /\ HeightOf(mem_last'.header) = 0) =>
              /\ mem_last'.res.kind \in {"HeightExists", "NonContinuousAppend"}
              /\ UNCHANGED <<mem_headers, mem_height_to_hash, mem_head_height>> ]_vars

\* the adjacent verification relation between a header and its successor
AdjacentRelation(lower, upper) ==
    /\ upper.validators_hash = lower.next_validators_hash
    /\ upper.last_header_hash = lower.hash

\* C31: in every state reached from an empty store by append / append_single only,
\* any two stored headers at consecutive heights h and h + 1 satisfy the adjacent
\* verification relation, inside one batch and across two batches.
C31_StoredNeighboursAdjacent ==
    \A lower \in header_store, upper \in header_store :
        HeightOf(upper) = HeightOf(lower) + 1 =>
            AdjacentRelation(HeaderOf[lower], HeaderOf[upper])

\* C31 for the pairs that straddle two batches: a header stored by a verifying
\* append next to a header stored before it is adjacent to it
C31_StraddlingPairsAdjacent ==
    [][ \A upper \in header_store' \ header_store, lower \in header_store :
            HeightOf(upper) = HeightOf(lower) + 1 =>
                AdjacentRelation(HeaderOf[lower], HeaderOf[upper]) ]_vars

\* the heights of a range set
HeightsOfRanges(ranges) == { h \in 1..(RangeMaxHeight + 1) : RangesContain(ranges, h) }

\* the ranges of a range set
RangeSet(ranges) == { ranges[i] : i \in 1..Len(ranges) }

\* the reservation of a range in a valid range set read from a table does what the
\* claim C32 says
ReservationMerges(rs, r) ==
    LET stored == get_stored_header_ranges(rs)
        out == try_insert_to_range(rs, r)
        result == get_stored_header_ranges(out.ranges)
    IN (/\ ValidRanges(stored)
        /\ \A i \in 1..Len(stored) : ranges_intersection(stored[i], r) = NoRange
        /\ out.ok) =>
          /\ out.prev_exists <=> RangeEndsAt(stored, r[1] - 1)
          /\ out.next_exists <=> RangeStartsAt(stored, r[2] + 1)
          /\ ValidRanges(result)
          /\ HeightsOfRanges(result) = HeightsOfRanges(stored) \cup (r[1]..r[2])
          /\ \A x \in RangeSet(stored) :
                (x[2] + 1 # r[1] /\ r[2] + 1 # x[1]) => x \in RangeSet(result)
          /\ (out.prev_exists /\ out.next_exists) =>
                /\ \E x \in RangeSet(result) : x[1] < r[1] /\ r[2] < x[2]
                /\ Len(result) = Len(stored) - 1
                /\ Cardinality(DOMAIN out.ranges) = Cardinality(DOMAIN rs) - 1

\* the ranges offered to the reservation
ReservedRanges == { r \in (1..RangeMaxHeight) \X (1..RangeMaxHeight) : r[1] <= r[2] }

\* C32: reserving lo..=hi in a valid range set that it does not overlap reports
\* prev_exists exactly when a stored range ends at lo - 1 and next_exists exactly
\* when a stored range starts at hi + 1; the stored result is the union of the new
\* range with its adjacent neighbours, the other ranges are untouched, and when both
\* neighbours exist they coalesce into one range and one entry is removed.
C32_ReservationMerges ==
    \A r \in ReservedRanges : ReservationMerges(ranges_store, r)

\* the keys of the ranges table are the positions of its ranges: 0, 1, ..
KeysArePositions(rs) == DOMAIN rs = 0..(Cardinality(DOMAIN rs) - 1)

\* C32 for a ranges table whose keys are the positions of its ranges
C32_ReservationMergesAlignedKeys ==
    \A r \in ReservedRanges :
        KeysArePositions(ranges_store) => ReservationMerges(ranges_store, r)

\* the step is an unverified insert of one header whose hash is stored at another
\* height and whose height is outside every stored range
InsertsStoredHash ==
    /\ InsertReturns
    /\ ~last'.verify
    /\ Len(last'.headers) = 1
    /\ ~contains_height(ranges_store, HeightOf(last'.headers[1]))
    /\ \E e \in header_store :
          /\ HashOf(e) = HashOf(last'.headers[1])
          /\ HeightOf(e) # HeightOf(last'.headers[1])

\* C33: inserting a header whose hash is already stored at a different height
\* outside every stored range fails with HashExists(hash) and leaves the store,
\* including the range set, unchanged.
C33_DuplicateHashRejected ==
    [][ InsertsStoredHash =>
          /\ last'.res = Res("HashExists", HashOf(last'.headers[1]), 0)
          /\ UNCHANGED <<header_store, ranges_store, head>> ]_vars

\* C33, the error alone: the insert fails with HashExists(hash), unless the range
\* reservation refuses its height first, and adds no header
C33_DuplicateHashRefused ==
    [][ InsertsStoredHash =>
          /\ \/ last'.res = Res("HashExists", HashOf(last'.headers[1]), 0)
             \/ last'.res.kind = "InsertPlacementDisallowed"
          /\ UNCHANGED <<header_store, head>> ]_vars

\* C33, the consequence: no two stored headers have the same hash, on both backends
C33_HashesUnique ==
    /\ \A x \in header_store, y \in header_store : HashOf(x) = HashOf(y) => x = y
    /\ \A x \in mem_headers, y \in mem_headers : HashOf(x) = HashOf(y) => x = y
    /\ \A x \in mem_height_to_hash, y \in mem_height_to_hash : x[2] = y[2] => x = y

\* C33 on the in-memory backend: an append of a header whose hash is stored at
\* another height, above the head, fails with HashExists and changes nothing
C33_MemDuplicateHashRejected ==
    [][ (/\ MemAppendReturns
         /\ HeightOf(mem_last'.header) = mem_head_height + 1
         /\ \E e \in mem_headers : HashOf(e) = HashOf(mem_last'.header)) =>
          /\ mem_last'.res = Res("HashExists", HashOf(mem_last'.header), 0)
          /\ UNCHANGED <<mem_headers, mem_height_to_hash, mem_head_height>> ]_vars

\* the validating task and the batch it was given
VhBatch == call_args.headers
VhRunning == call_args.fn = "validate_headers" /\ ~call_ret.done /\ ~call_ret.yielded

\* C34: validate_headers validates the headers in batch order and yields to the
\* scheduler after every chunk of 4 validated headers and after a final shorter
\* chunk, so that at most 4 headers are validated between two yield points and
\* another ready task can run at each yield; it stops at the first invalid header
\* and returns that error.
C34_ValidateHeadersYields ==
    /\ [](call_args.fn = "validate_headers" =>
            /\ call_ret.validated <= VALIDATIONS_PER_YIELD
            /\ VhRunning => call_ret.validated < VALIDATIONS_PER_YIELD
            /\ \A i \in 1..(call_ret.next - 1) : Validate(HeaderOf[VhBatch[i]])
            /\ call_ret.yielded =>
                  /\ call_ret.validated >= 1
                  /\ call_ret.validated = VALIDATIONS_PER_YIELD
                        \/ call_ret.next = Len(VhBatch) + 1
                  /\ ~call_ret.polled => ENABLED OtherTaskPoll
            /\ call_ret.done =>
                  /\ call_ret.res = validate_headers(VhBatch)
                  /\ IF call_ret.ok THEN call_ret.next = Len(VhBatch) + 1
                     ELSE ~Validate(HeaderOf[VhBatch[call_ret.next]]))
    /\ [][ /\ (VhRunning /\ call_ret'.next = call_ret.next + 1) =>
                (call_ret'.yielded <=>
                    \/ call_ret.next % VALIDATIONS_PER_YIELD = 0
                    \/ call_ret.next = Len(VhBatch))
           /\ (VhRunning /\ call_ret'.done /\ Len(VhBatch) > 0) =>
                (~call_ret'.ok /\ call_ret'.next = call_ret.next)
           /\ call_ret'.polled # call_ret.polled /\ call_ret'.polled =>
                call_ret.yielded /\ call_ret'.next = call_ret.next ]_vars

\* C34 witness: of five valid headers four have been validated, the task is
\* suspended in yield_now and another task has been polled
C34_Witness ==
    /\ call_args.fn = "validate_headers"
    /\ Len(VhBatch) = VALIDATIONS_PER_YIELD + 1
    /\ call_ret.yielded /\ call_ret.polled
    /\ call_ret.next = VALIDATIONS_PER_YIELD + 1
    /\ call_ret.validated = VALIDATIONS_PER_YIELD

\* C34 witness: validation stopped at an invalid header in the second chunk
C34_WitnessError ==
    /\ call_args.fn = "validate_headers"
    /\ call_ret.done /\ ~call_ret.ok
    /\ call_ret.next = VALIDATIONS_PER_YIELD + 1
    /\ call_ret.res = Res("ValidationError", VALIDATIONS_PER_YIELD + 1, 0)

\* C35: in the in-memory store, in every interleaving of readers with concurrent
\* appends, a reader for which has_at(h) is true never gets LostHeight or LostHash
\* from get_by_height(h): the hash -> header entry is written before the
\* height -> hash entry, and the head height is published only after both.
C35_ReaderNeverLost ==
    /\ [](\A t \in Readers : mth[t].res.kind \notin {"LostHeight", "LostHash"})
    /\ [][ /\ \A e \in mem_height_to_hash' \ mem_height_to_hash :
                  mem_contains_hash(mem_headers, e[2])
           /\ mem_head_height' # mem_head_height =>
                  \E e \in mem_height_to_hash :
                      /\ e[1] = mem_head_height'
                      /\ mem_contains_hash(mem_headers, e[2]) ]_vars

\* C35 witness: a reader got the header of height 1 while an appender that has
\* written both entries of height 2 has not published the head height yet
C35_Witness ==
    /\ \E t \in Readers :
          /\ mth[t].op = "get_by_height" /\ mth[t].pc = "idle"
          /\ IsOk(mth[t].res) /\ mth[t].header # NoHeader /\ mth[t].height = 1
    /\ \E u \in Appenders : mth[u].pc = "store_head" /\ mth[u].height = 2
    /\ mem_head_height = 1

\* C35 witness: a reader that found has_at(h) true is about to look the hash up
\* while an appender holds an entry of `headers`
C35_WitnessInterleaved ==
    /\ \E t \in Readers : mth[t].pc = "get_header"
    /\ \E u \in Appenders : HoldsHashEntry(mth[u])

\* the thread is in append_single_unchecked past the checks against head_height
MtRacing(th) == th.op = "append" /\ th.pc # "idle"

\* the thread's append has found both entries vacant, or has returned Ok
MtWinning(th) ==
    /\ th.op = "append"
    /\ th.pc \in {"insert_hash", "insert_height", "store_head"}
         \/ (th.pc = "idle" /\ IsOk(th.res))

\* a step of a thread that is in a call
MtInCallStep ==
    \/ \E t \in Appenders :
          \/ MtLockHash(t) \/ MtLockHeight(t)
          \/ MtInsertHash(t) \/ MtInsertHeight(t) \/ MtStoreHead(t)
    \/ \E t \in Readers : MtReadHash(t) \/ MtReadHeader(t)

C36_WitnessSameHeader ==
    \E t \in Appenders, u \in Appenders :
        /\ t # u
        /\ mth[t].op = "append" /\ mth[t].pc \in {"insert_height", "store_head"}
        /\ mth[u].op = "append" /\ mth[u].pc = "idle"
        /\ mth[u].res = Res("HashExists", mth[t].hash, 0)
        /\ mth[u].header = mth[t].header

\* the heights of the range set the iterator was made from
IterHeights ==
    { h \in 1..IterMaxHeight :
        \E i \in 1..Len(call_args.ranges) :
            call_args.ranges[i][1] <= h /\ h <= call_args.ranges[i][2] }

\* the heights returned so far are the lowest heights of the range set
ReturnedIsPrefix ==
    /\ call_ret.returned \subseteq IterHeights
    /\ \A h \in call_ret.returned, g \in IterHeights : g < h => g \in call_ret.returned

\* a call of next_batch that returns a range returns the next heights: not empty, at
\* most `limit` long, inside one stored range, starting at the lowest height not yet
\* returned; it returns None exactly when every height was returned
BatchIsNext ==
    call_ret'.calls = call_ret.calls + 1 =>
        LET batch == call_ret'.ret
            rest  == IterHeights \ call_ret.returned
        IN /\ (batch = NoRange) <=> (rest = {})
           /\ batch # NoRange =>
                /\ batch[1] <= batch[2]
                /\ RangeLen(batch) <= call_args'.limit
                /\ \E i \in 1..Len(call_args.ranges) :
                      /\ call_args.ranges[i][1] <= batch[1]
                      /\ batch[2] <= call_args.ranges[i][2]
                /\ \A h \in rest : batch[1] <= h
                /\ (batch[1]..batch[2]) \subseteq rest

\* C37: for every valid range set and every sequence of limits >= 1, successive
\* next_batch calls return non-empty ranges of at most `limit` heights, each inside one
\* stored range, in ascending order, none skipped and none repeated, and None once
\* every height was returned
C37_BatchesCoverRanges ==
    /\ [](ReturnedIsPrefix /\ (call_ret.done => call_ret.returned = IterHeights))
    /\ [][BatchIsNext]_vars

\* C37 witness: the batches of a set of two ranges were returned with a batch that
\* split a range, and the call after the last height returned None
C37_Witness ==
    /\ call_args.fn = "next_batch" /\ Len(call_args.ranges) = 2
    /\ call_ret.done /\ call_ret.returned = IterHeights
    /\ call_ret.calls > Len(call_args.ranges) + 1

\* C37 witness: a batch is the start of a range longer than the limit and another
\* range comes after it
C37_WitnessSplit ==
    /\ call_args.fn = "next_batch" /\ call_ret.ret # NoRange
    /\ call_ret.it.inner # NoRange /\ call_ret.it.inner[1] = call_ret.ret[2] + 1
    /\ RangeLen(call_ret.ret) = call_args.limit
    /\ Len(call_ret.it.outer) = 1

\* more calls were made on the iterator than the range set has heights
IterCalledThrough == call_ret.calls > Cardinality(IterHeights)

\* C38: for every range set and every limit, repeated next_batch(limit) calls return
\* None after finitely many calls, and iteration with next() ends and then keeps
\* returning None: once more calls were made than there are heights, every call
\* has returned None
C38_IterationEnds == IterCalledThrough => call_ret.done

\* C38 for next(): the call after the last height returns None and so does every
\* later call
C38_NextEnds == (call_args.fn = "next" /\ IterCalledThrough) => call_ret.done

\* C38 for next_batch with a limit of at least one
C38_BatchesEndForPositiveLimit ==
    (call_args.fn = "next_batch" /\ call_args.limit >= 1 /\ IterCalledThrough)
        => call_ret.done

\* next_batch(0) on a range set that is not empty returns the empty range below the
\* first height in every call and never None
C38_ZeroLimitNeverEnds ==
    (call_args.fn = "next_batch" /\ call_args.limit = 0 /\ IterHeights # {})
        => /\ ~call_ret.done
           /\ call_ret.it = into_iter(call_args.ranges)
           /\ call_ret.calls > 0 =>
                call_ret.ret = <<call_args.ranges[1][1], call_args.ranges[1][1] - 1>>

\* the step is a return of wait_new_head
WaitNewHeadReturns == wpc = "await" /\ wpc' = "done"

\* wait_new_head returns the head height of the store, and it differs from the head
\* height of the store at the call
C39_ReturnsOtherHead ==
    [][WaitNewHeadReturns =>
          /\ call_ret'.new_head # wheight
          /\ call_ret'.new_head = HeadHeight
          /\ wfired]_vars

\* the head height changes only in an insert that succeeds
C39_HeadChangedBySuccess ==
    [][HeadHeight' # HeadHeight => (InsertReturns /\ last'.res = Ok)]_vars

\* a waiter woken while the head height is the one of its call re-arms and waits on
C39_BackfillRearms ==
    [][(wpc = "await" /\ wfired /\ wpc' # wpc) => HeadHeight # wheight]_vars

\* a change of the head height after the call is reported in the end
C39_HeadChangeReported ==
    (wpc = "await" /\ HeadHeight # wheight) ~> (wpc = "done")

\* C39: wait_new_head returns a head height different from the one at its call and
\* only after a successful insert changed the head; an insert that leaves the head
\* wakes the waiter, which re-arms and waits on; a head change after the call is
\* reported in the end
C39_WaitNewHead ==
    /\ C39_ReturnsOtherHead
    /\ C39_HeadChangedBySuccess
    /\ C39_BackfillRearms
    /\ C39_HeadChangeReported

\* wait_new_head returned a head height under which the store has no header
C39_ReturnedHeadNotStored ==
    /\ wpc = "done" /\ call_ret.done
    /\ call_ret.new_head \notin StoredHeights

\* a waiter was woken by an insert below the head, which left the head unchanged
C39_BackfillWoke ==
    /\ wpc = "await" /\ wfired /\ HeadHeight = wheight /\ wheight > 0
    /\ last.op = "insert" /\ last.res = Ok

\* the ranges table that holds a range set under the positions of its ranges
TableOf(ranges) == [ k \in 0..(Len(ranges) - 1) |-> ranges[k + 1] ]

\* `range` is what calculate_range_to_fetch may return for the range set: no stored
\* height, and next to the topmost range when neither is empty
FetchedNextToTop(ranges, range) ==
    /\ \A h \in range[1]..range[2] : ~RangesContain(ranges, h)
    /\ (~RangeIsEmpty(range) /\ Len(ranges) > 0) =>
          \E top \in {ranges[Len(ranges)]} :
              range[1] = top[2] + 1 \/ range[2] = top[1] - 1

\* reserving the fetched range in the table of the range set succeeds and leaves no
\* more ranges than there were
FetchedRangeJoins(ranges, range) ==
    (~RangeIsEmpty(range) /\ Len(ranges) > 0) =>
        \E out \in {try_insert_to_range(TableOf(ranges), range)} :
            /\ out.ok
            /\ out.prev_exists \/ out.next_exists
            /\ Len(get_stored_header_ranges(out.ranges)) <= Len(ranges)
            /\ ValidRanges(get_stored_header_ranges(out.ranges))

\* C40: for every valid stored range set, head height and limit >= 1, the range
\* returned by calculate_range_to_fetch contains no stored height, has at most
\* `limit` heights and, when it and the store are not empty, is adjacent to the
\* topmost stored range, so that inserting it neither overlaps nor adds a range
C40_FetchedRangeExtendsTop ==
    (call_args.fn = "calculate_range_to_fetch" /\ call_ret.done) =>
        /\ ValidRanges(call_args.store_headers) /\ call_args.limit >= 1
        /\ FetchedNextToTop(call_args.store_headers, call_ret.range)
        /\ RangeIsEmpty(call_ret.range) \/ RangeLen(call_ret.range) <= call_args.limit
        /\ FetchedRangeJoins(call_args.store_headers, call_ret.range)

\* C40 witness: with 1..=1 and 5..=6 stored, head 6 and limit 3, the range to fetch
\* is 2..=4, which fills the gap below the topmost range
C40_Witness ==
    /\ call_args.fn = "calculate_range_to_fetch" /\ call_ret.done
    /\ call_args.store_headers = << <<1, 1>>, <<5, 6>> >>
    /\ call_args.subjective_head_height = 6 /\ call_args.limit = 3
    /\ call_ret.range = <<2, 4>>

\* C40 witness: with 1..=2 stored, head 6 and limit 2, the range to fetch is 3..=4,
\* the two heights above the topmost range
C40_WitnessForward ==
    /\ call_args.fn = "calculate_range_to_fetch" /\ call_ret.done
    /\ call_args.store_headers = << <<1, 2>> >>
    /\ call_args.subjective_head_height = 6 /\ call_args.limit = 2
    /\ call_ret.range = <<3, 4>>

\* the step is an unverified insert of the run of headers that calculate_range_to_fetch
\* returns for the stored range set, some head height and some limit
InsertsFetchedRange ==
    /\ InsertReturns
    /\ Len(last'.headers) > 0
    /\ \E stored \in {get_stored_header_ranges(ranges_store)} :
          /\ Len(stored) > 0 /\ ValidRanges(stored)
          /\ \E head_height \in 0..(RangeMaxHeight + 1), limit \in 1..RangeMaxHeight :
                calculate_range_to_fetch(head_height, stored, limit)
                    = <<HeightOf(last'.headers[1]),
                        HeightOf(last'.headers[Len(last'.headers)])>>

\* C40 in the store: the insert of a fetched range does not fail with
\* HeaderRangeOverlap and leaves no more ranges than there were
C40_FetchedInsertJoins ==
    [][InsertsFetchedRange =>
          /\ last'.res.kind # "HeaderRangeOverlap"
          /\ Len(get_stored_header_ranges(ranges_store'))
                <= Len(get_stored_header_ranges(ranges_store))]_vars

\* C40 in a store whose ranges table has the positions of its ranges as keys
C40_FetchedInsertJoinsAlignedKeys ==
    [][(InsertsFetchedRange /\ KeysArePositions(ranges_store)) =>
          /\ last'.res = Ok
          /\ Len(get_stored_header_ranges(ranges_store'))
                <= Len(get_stored_header_ranges(ranges_store))
          /\ ValidRanges(get_stored_header_ranges(ranges_store'))]_vars

====
